---- MODULE Spec2Model ----
(***************************************************************************)
(* A model of the 2FAS exporter: the OTP entry model (OTPTools/base.py,    *)
(* totp.py, hotp.py), the OTP factory (OTPTools/factory.py), the 2FAS      *)
(* backup processor with its decryption engine (BackupProcessors/twofas.py)*)
(* and the processor registry (BackupProcessors/__init__.py).              *)
(*                                                                         *)
(* Python values are tagged records [t |-> <type>, ...]; a str is a        *)
(* sequence of one-character strings, so that strip, replace, upper,       *)
(* quote, unquote and the URL parser are computed character by character.  *)
(* A call that may raise returns [exc |-> <exception class>, ...], with    *)
(* exc = "none" and val = <value> when it returns normally.                *)
(***************************************************************************)
EXTENDS Integers, Sequences, FiniteSets, TLC

\* ------------------------------------------------------------------------
\* Python values
\* ------------------------------------------------------------------------

None == [t |-> "none"]

JStr(s) == [t |-> "str", v |-> s]

JInt(n) == [t |-> "int", v |-> n]

JList(l) == [t |-> "list", v |-> l]

JDict(d) == [t |-> "dict", v |-> d]

EmptyDict == JDict([k \in {} |-> None])

\* bool(x) of a Python value
Truthy(x) ==
    CASE x.t = "none" -> FALSE
      [] x.t = "int"  -> x.v # 0
      [] x.t = "str"  -> IF "v" \in DOMAIN x THEN x.v # <<>> ELSE TRUE
      [] x.t = "list" -> x.v # <<>>
      [] x.t = "dict" -> DOMAIN x.v # {}
      [] OTHER        -> TRUE

\* a or b
PyOr(a, b) == IF Truthy(a) THEN a ELSE b

\* d.get(k, default) of a dict value d
DictGet(d, k, default) == IF k \in DOMAIN d.v THEN d.v[k] ELSE default

\* k in d
DictHas(d, k) == k \in DOMAIN d.v

Ok(v) == [exc |-> "none", val |-> v]

Raise(e, why) == [exc |-> e, why |-> why]

IsOk(r) == r.exc = "none"

\* the statements F that follow a call: they run on its value when it
\* returned, and are skipped when it raised
Bind(r, F(_)) == IF IsOk(r) THEN F(r.val) ELSE r

\* name = v, then the statements F
With(v, F(_)) == F(v)

\* ------------------------------------------------------------------------
\* str methods, character by character
\* ------------------------------------------------------------------------

LowerLetters ==
    <<"a","b","c","d","e","f","g","h","i","j","k","l","m",
      "n","o","p","q","r","s","t","u","v","w","x","y","z">>

UpperLetters ==
    <<"A","B","C","D","E","F","G","H","I","J","K","L","M",
      "N","O","P","Q","R","S","T","U","V","W","X","Y","Z">>

DigitChars == <<"0","1","2","3","4","5","6","7","8","9">>

Range(s) == {s[i] : i \in DOMAIN s}

Whitespace == {" ", "\t", "\n"}

UpperChar(c) ==
    IF c \in Range(LowerLetters)
    THEN UpperLetters[CHOOSE i \in DOMAIN LowerLetters : LowerLetters[i] = c]
    ELSE c

LowerChar(c) ==
    IF c \in Range(UpperLetters)
    THEN LowerLetters[CHOOSE i \in DOMAIN UpperLetters : UpperLetters[i] = c]
    ELSE c

\* s.upper()
Upper(s) == [i \in DOMAIN s |-> UpperChar(s[i])]

\* s.lower()
Lower(s) == [i \in DOMAIN s |-> LowerChar(s[i])]

RECURSIVE LStripSet(_, _)
\* s.lstrip(chars)
LStripSet(s, chars) ==
    IF s # <<>> /\ Head(s) \in chars THEN LStripSet(Tail(s), chars) ELSE s

RECURSIVE RStripSet(_, _)
\* s.rstrip(chars)
RStripSet(s, chars) ==
    IF s # <<>> /\ s[Len(s)] \in chars
    THEN RStripSet(SubSeq(s, 1, Len(s) - 1), chars)
    ELSE s

\* s.strip()
Strip(s) == RStripSet(LStripSet(s, Whitespace), Whitespace)

\* s.replace(a, b) for one-character a and b
ReplaceChar(s, a, b) == [i \in DOMAIN s |-> IF s[i] = a THEN b ELSE s[i]]

\* s.replace(a, "") for a one-character a
RemoveChar(s, a) == SelectSeq(s, LAMBDA c : c # a)

\* the position of the first c in s, 0 when there is none (s.find(c) + 1)
Find(s, c) ==
    IF c \in Range(s) THEN CHOOSE i \in DOMAIN s : s[i] = c /\ \A j \in 1..(i - 1) : s[j] # c
    ELSE 0

StartsWith(s, p) == Len(s) >= Len(p) /\ SubSeq(s, 1, Len(p)) = p

RECURSIVE SplitOn(_, _)
\* s.split(c): always at least one part
SplitOn(s, c) ==
    LET i == Find(s, c) IN
    IF i = 0 THEN <<s>>
    ELSE <<SubSeq(s, 1, i - 1)>> \o SplitOn(SubSeq(s, i + 1, Len(s)), c)

RECURSIVE NatToStr(_)
NatToStr(n) ==
    IF n < 10 THEN <<DigitChars[n + 1]>>
    ELSE NatToStr(n \div 10) \o <<DigitChars[(n % 10) + 1]>>

\* str(n) of an int
IntToStr(n) == IF n < 0 THEN <<"-">> \o NatToStr(-n) ELSE NatToStr(n)

DigitVal(c) == (CHOOSE i \in DOMAIN DigitChars : DigitChars[i] = c) - 1

RECURSIVE DigitsToNat(_, _)
DigitsToNat(s, acc) ==
    IF s = <<>> THEN acc ELSE DigitsToNat(Tail(s), 10 * acc + DigitVal(Head(s)))

\* the value of a digit string, negated when negative
ParseDigits(negative, digs) ==
    IF digs = <<>> \/ ~(Range(digs) \subseteq Range(DigitChars))
    THEN Raise("ValueError", "invalid literal for int()")
    ELSE Ok(IF negative THEN 0 - DigitsToNat(digs, 0) ELSE DigitsToNat(digs, 0))

\* int(s) of a str: surrounding whitespace and one sign are accepted
\* (underscore digit separators are left out of the model)
StrToInt(s) ==
    With(Strip(s), LAMBDA body :
        IF body # <<>> /\ Head(body) \in {"-", "+"}
        THEN ParseDigits(Head(body) = "-", Tail(body))
        ELSE ParseDigits(FALSE, body))

\* x.upper() of a Python value: the upper-case characters
PyUpper(x) == IF x.t # "str" THEN Raise("AttributeError", "upper") ELSE Ok(Upper(x.v))

\* int(x) of a Python value
PyInt(x) ==
    CASE x.t = "int" -> Ok(x.v)
      [] x.t = "str" -> StrToInt(x.v)
      [] OTHER       -> Raise("TypeError", "int() argument")

\* ------------------------------------------------------------------------
\* OTPConfig (OTPTools/config.py)
\* ------------------------------------------------------------------------

DEFAULT_DIGITS == 6

DEFAULT_PERIOD == 30

DEFAULT_COUNTER == 0

MIN_PERIOD == 15

MAX_PERIOD == 300

DEFAULT_ALGORITHM == <<"S","H","A","1">>

VALID_DIGITS == {6, 7, 8}

VALID_ALGORITHMS ==
    { <<"S","H","A","1">>, <<"S","H","A","2","5","6">>, <<"S","H","A","5","1","2">> }

\* ------------------------------------------------------------------------
\* OTP entry model (OTPTools/base.py, totp.py, hotp.py)
\* ------------------------------------------------------------------------

\* OTPError and its subclasses (OTPTools/exceptions.py)
OTPErrorClasses ==
    {"OTPError", "InvalidSecretError", "InvalidParameterError", "ParseError", "ExportError"}

\* SanitizeString, were ":" left in place
SanitizeStringKeepingColon(value) ==
    IF ~Truthy(value) THEN Ok(value)
    ELSE IF value.t # "str" THEN Raise("AttributeError", "strip")
    ELSE Ok(JStr(Strip(value.v)))

\* _sanitize_string
SanitizeString(value) ==
    IF ~Truthy(value) THEN Ok(value)
    ELSE IF value.t # "str" THEN Raise("AttributeError", "strip")
    ELSE Ok(JStr(ReplaceChar(Strip(value.v), ":", "-")))

NormalizeSecret(secret) ==
    IF ~Truthy(secret) THEN Ok(secret)
    ELSE IF secret.t # "str" THEN Raise("AttributeError", "upper")
    ELSE Ok(JStr(RemoveChar(RemoveChar(Upper(secret.v), " "), "-")))

B32Alphabet == Range(UpperLetters) \cup {"2", "3", "4", "5", "6", "7"}

\* re.compile(r'^[A-Z2-7]+=*$').match(secret); "$" also matches before one
\* trailing newline
Base32PatternMatches(s) ==
    LET t    == IF s # <<>> /\ s[Len(s)] = "\n" THEN SubSeq(s, 1, Len(s) - 1) ELSE s
        core == RStripSet(t, {"="})
    IN  core # <<>> /\ Range(core) \subseteq B32Alphabet

\* base64.b32decode(s) returns (does not raise)
B32DecodeOk(s) ==
    LET core == RStripSet(s, {"="}) IN
    /\ Len(s) % 8 = 0
    /\ Range(core) \subseteq B32Alphabet
    /\ (Len(s) - Len(core)) \in {0, 1, 3, 4, 6}

IsValidBase32(secret) ==
    /\ Base32PatternMatches(secret)
    /\ B32DecodeOk(secret \o [i \in 1..((8 - (Len(secret) % 8)) % 8) |-> "="])

\* ValidateCommonParams, were the issuer validated before the secret
ValidateCommonParamsIssuerFirst(issuer, secret, digits, algorithm) ==
    IF ~Truthy(issuer) THEN Raise("InvalidParameterError", "issuer")
    ELSE IF ~Truthy(secret) THEN Raise("InvalidSecretError", "empty")
    ELSE IF ~IsValidBase32(secret.v) THEN Raise("InvalidSecretError", "base32")
    ELSE IF digits \notin VALID_DIGITS THEN Raise("InvalidParameterError", "digits")
    ELSE IF algorithm \notin VALID_ALGORITHMS THEN Raise("InvalidParameterError", "algorithm")
    ELSE Ok(TRUE)

\* the checks of _validate_common_params, in the order of the code
ValidateCommonParams(issuer, secret, digits, algorithm) ==
    IF ~Truthy(secret) THEN Raise("InvalidSecretError", "empty")
    ELSE IF ~IsValidBase32(secret.v) THEN Raise("InvalidSecretError", "base32")
    ELSE IF ~Truthy(issuer) THEN Raise("InvalidParameterError", "issuer")
    ELSE IF digits \notin VALID_DIGITS THEN Raise("InvalidParameterError", "digits")
    ELSE IF algorithm \notin VALID_ALGORITHMS THEN Raise("InvalidParameterError", "algorithm")
    ELSE Ok(TRUE)

\* OTPEntry.__init__: the common fields as stored, or the exception raised
OTPEntryInit(issuer, secret, account, digits, algorithm) ==
    Bind(SanitizeString(issuer), LAMBDA i :
    Bind(NormalizeSecret(secret), LAMBDA s :
    Bind(IF Truthy(account) THEN SanitizeString(account) ELSE Ok(None), LAMBDA a :
    Bind(PyInt(digits), LAMBDA d :
    Bind(PyUpper(algorithm), LAMBDA g :
    Bind(ValidateCommonParams(i, s, d, g), LAMBDA v :
        Ok([secret |-> s.v, issuer |-> i.v, digits |-> d,
            algorithm |-> g, account |-> a])))))))

\* ValidateTotpParams, were the two bounds themselves rejected
ValidateTotpParamsExclusive(period) ==
    IF period <= MIN_PERIOD THEN Raise("InvalidParameterError", "period")
    ELSE IF period >= MAX_PERIOD THEN Raise("InvalidParameterError", "period")
    ELSE Ok(TRUE)

\* _validate_totp_params
ValidateTotpParams(period) ==
    IF period < MIN_PERIOD THEN Raise("InvalidParameterError", "period")
    ELSE IF period > MAX_PERIOD THEN Raise("InvalidParameterError", "period")
    ELSE Ok(TRUE)

ValidateHotpParams(counter) ==
    IF counter < 0 THEN Raise("InvalidParameterError", "counter") ELSE Ok(TRUE)

\* TOTPEntry(...): the entry (its to_dict()), or the exception raised
TOTPEntry(issuer, secret, account, digits, period, algorithm) ==
    Bind(PyInt(period), LAMBDA p :
    Bind(OTPEntryInit(issuer, secret, account, digits, algorithm), LAMBDA b :
    Bind(ValidateTotpParams(p), LAMBDA v :
        Ok([secret |-> b.secret, issuer |-> b.issuer, digits |-> b.digits,
            algorithm |-> b.algorithm, account |-> b.account,
            period |-> p, type |-> "totp"]))))

\* HOTPEntry(...): the entry (its to_dict()), or the exception raised
HOTPEntry(issuer, secret, account, digits, counter, algorithm) ==
    Bind(PyInt(counter), LAMBDA c :
    Bind(OTPEntryInit(issuer, secret, account, digits, algorithm), LAMBDA b :
    Bind(ValidateHotpParams(c), LAMBDA v :
        Ok([secret |-> b.secret, issuer |-> b.issuer, digits |-> b.digits,
            algorithm |-> b.algorithm, account |-> b.account,
            counter |-> c, type |-> "hotp"]))))

\* _generate_label: "issuer:account", or the issuer alone
GenerateLabel(e) ==
    IF Truthy(e.account) THEN e.issuer \o <<":">> \o e.account.v ELSE e.issuer

K_secret == <<"s","e","c","r","e","t">>

K_issuer == <<"i","s","s","u","e","r">>

K_digits == <<"d","i","g","i","t","s">>

K_algorithm == <<"a","l","g","o","r","i","t","h","m">>

K_period == <<"p","e","r","i","o","d">>

K_counter == <<"c","o","u","n","t","e","r">>

\* GetSpecificParams, were the period always given
GetSpecificParamsAlways(e) ==
    IF e.type = "totp"
    THEN << <<K_period, IntToStr(e.period)>> >>
    ELSE << <<K_counter, IntToStr(e.counter)>> >>

\* _get_specific_params of TOTPEntry and of HOTPEntry: (name, value) pairs
GetSpecificParams(e) ==
    IF e.type = "totp"
    THEN IF e.period # DEFAULT_PERIOD
         THEN << <<K_period, IntToStr(e.period)>> >> ELSE <<>>
    ELSE << <<K_counter, IntToStr(e.counter)>> >>

\* IncrementCounter, were a step of 0 allowed
IncrementCounterFromZero(e, steps) ==
    IF steps < 0 THEN Raise("InvalidParameterError", "steps")
    ELSE Ok([e EXCEPT !.counter = e.counter + steps])

\* increment_counter(steps)
IncrementCounter(e, steps) ==
    IF steps < 1 THEN Raise("InvalidParameterError", "steps")
    ELSE Ok([e EXCEPT !.counter = e.counter + steps])

\* SyncCounter, were a negative value taken
SyncCounterUnchecked(e, new_value) == Ok([e EXCEPT !.counter = new_value])

\* sync_counter(new_value)
SyncCounter(e, new_value) ==
    IF new_value < 0 THEN Raise("InvalidParameterError", "counter")
    ELSE Ok([e EXCEPT !.counter = new_value])

\* reset_counter()
ResetCounter(e) == Ok([e EXCEPT !.counter = 0])

\* ------------------------------------------------------------------------
\* urllib.parse: quote, unquote, urlparse, parse_qs
\* ------------------------------------------------------------------------

\* never quoted: letters, digits and "_.-~", and quote()'s default safe "/"
QuoteSafe ==
    Range(UpperLetters) \cup Range(LowerLetters) \cup Range(DigitChars)
        \cup {"_", ".", "-", "~", "/"}

\* the percent codes of the other ASCII characters of the model
PctTable ==
    (" " :> <<"2","0">>) @@ ("!" :> <<"2","1">>) @@ ("#" :> <<"2","3">>) @@
    ("%" :> <<"2","5">>) @@ ("&" :> <<"2","6">>) @@ ("+" :> <<"2","B">>) @@
    (":" :> <<"3","A">>) @@ ("=" :> <<"3","D">>) @@ ("?" :> <<"3","F">>) @@
    ("@" :> <<"4","0">>) @@ ("\t" :> <<"0","9">>) @@ ("\n" :> <<"0","A">>) @@
    ("/" :> <<"2","F">>) @@ ("-" :> <<"2","D">>) @@ ("A" :> <<"4","1">>)

HexChars == Range(DigitChars) \cup {"A","B","C","D","E","F","a","b","c","d","e","f"}

QuoteChar(c) == IF c \in QuoteSafe THEN <<c>> ELSE <<"%">> \o PctTable[c]

RECURSIVE Quote(_)
\* urllib.parse.quote(s)
Quote(s) == IF s = <<>> THEN <<>> ELSE QuoteChar(Head(s)) \o Quote(Tail(s))

\* the character of a percent code in upper case ("\\x" for a byte outside
\* the model)
PctChar(code) ==
    With({c \in DOMAIN PctTable : PctTable[c] = code}, LAMBDA hits :
        IF hits = {} THEN "\\x" ELSE CHOOSE c \in hits : TRUE)

\* the character a percent code stands for
PctDecode(h1, h2) == PctChar(<<UpperChar(h1), UpperChar(h2)>>)

RECURSIVE Unquote(_)
\* urllib.parse.unquote(s)
Unquote(s) ==
    IF s = <<>> THEN <<>>
    ELSE IF Head(s) = "%" /\ Len(s) >= 3 /\ s[2] \in HexChars /\ s[3] \in HexChars
         THEN <<PctDecode(s[2], s[3])>> \o Unquote(SubSeq(s, 4, Len(s)))
         ELSE <<Head(s)>> \o Unquote(Tail(s))

\* the first position in s of a character of cs, Len(s) + 1 when there is none
FindAny(s, cs) ==
    IF \E i \in DOMAIN s : s[i] \in cs
    THEN CHOOSE i \in DOMAIN s : s[i] \in cs /\ \A j \in 1..(i - 1) : s[j] \notin cs
    ELSE Len(s) + 1

\* urllib.parse.urlparse(url) of a URL with a scheme and "//": tab and newline
\* are removed, the netloc ends at the first "/", "?" or "#", then the
\* fragment is cut at the first "#" and the query at the first "?"
UrlParse(url) ==
    With(RemoveChar(RemoveChar(RemoveChar(url, "\t"), "\n"), "\r"), LAMBDA u :
    With(Find(u, ":"), LAMBDA colon :
    With(SubSeq(u, colon + 3, Len(u)), LAMBDA rest :
    With(FindAny(rest, {"/", "?", "#"}), LAMBDA d :
    With(SubSeq(rest, d, Len(rest)), LAMBDA tail :
    With(Find(tail, "#"), LAMBDA h :
    With(IF h > 0 THEN SubSeq(tail, 1, h - 1) ELSE tail, LAMBDA nofrag :
    With(Find(nofrag, "?"), LAMBDA q :
        [scheme |-> Lower(SubSeq(u, 1, colon - 1)),
         netloc |-> SubSeq(rest, 1, d - 1),
         path   |-> IF q > 0 THEN SubSeq(nofrag, 1, q - 1) ELSE nofrag,
         query  |-> IF q > 0 THEN SubSeq(nofrag, q + 1, Len(nofrag)) ELSE <<>>]))))))))

\* the (name, value) pair of one "name=value" field whose "=" is at eq: a
\* field with no "=" or with an empty value is dropped
QsPair(nv, eq) ==
    IF eq = 0 \/ eq = Len(nv) THEN <<>>
    ELSE << <<Unquote(ReplaceChar(SubSeq(nv, 1, eq - 1), "+", " ")),
              Unquote(ReplaceChar(SubSeq(nv, eq + 1, Len(nv)), "+", " "))>> >>

RECURSIVE ParseQsl(_)
\* the (name, value) pairs of a list of fields
ParseQsl(fields) ==
    IF fields = <<>> THEN <<>>
    ELSE QsPair(Head(fields), Find(Head(fields), "=")) \o ParseQsl(Tail(fields))

\* urllib.parse.parse_qs(query), as (name, value) pairs in the order of the query
ParseQs(query) == ParseQsl(SplitOn(query, "&"))

\* the first value of a list of pairs, default when the list is empty
FirstValue(hits, default) == IF hits = <<>> THEN default ELSE JStr(hits[1][2])

\* params.get(name, [default])[0]
ParamGet(params, name, default) ==
    FirstValue(SelectSeq(params, LAMBDA p : p[1] = name), default)

RECURSIVE JoinWith(_, _)
\* sep.join(parts)
JoinWith(parts, sep) ==
    IF parts = <<>> THEN <<>>
    ELSE IF Len(parts) = 1 THEN parts[1]
    ELSE parts[1] \o sep \o JoinWith(Tail(parts), sep)

OtpauthPrefix == <<"o","t","p","a","u","t","h",":","/","/">>

T_totp == <<"t","o","t","p">>

T_hotp == <<"h","o","t","p">>

\* the token_type property
TokenType(e) == IF e.type = "totp" THEN T_totp ELSE T_hotp

\* "&".join([f"{k}={quote(str(v))}" for k, v in params.items()])
ParamsStr(params) ==
    JoinWith([i \in DOMAIN params |-> params[i][1] \o <<"=">> \o Quote(params[i][2])],
             <<"&">>)

\* OTPEntry.otpauth: otpauth://TYPE/LABEL?PARAMS
Otpauth(e) ==
    OtpauthPrefix \o TokenType(e) \o <<"/">> \o Quote(GenerateLabel(e)) \o <<"?">>
        \o ParamsStr(<< <<K_secret, e.secret>>, <<K_issuer, e.issuer>>,
                        <<K_digits, IntToStr(e.digits)>>, <<K_algorithm, e.algorithm>> >>
                     \o GetSpecificParams(e))

\* ------------------------------------------------------------------------
\* OTP factory (OTPTools/factory.py)
\* ------------------------------------------------------------------------

\* the except clauses that close create_from_2fas and parse_otpauth_url:
\* ValueError and TypeError become ParseError, an OTPError (ParseError,
\* InvalidSecretError and InvalidParameterError are OTPErrors) becomes a plain
\* OTPError, anything else passes
WrapFactoryErrors(r) ==
    IF IsOk(r) THEN r
    ELSE IF r.exc \in {"ValueError", "TypeError"} THEN Raise("ParseError", r.why)
    ELSE IF r.exc \in OTPErrorClasses THEN Raise("OTPError", r.why)
    ELSE r

\* lines 234-257: the optional parameters, then the entry of the type
ParseOtpauthEntry(otp_type, params, issuer, secret, account) ==
    Bind(PyInt(ParamGet(params, K_digits, JInt(DEFAULT_DIGITS))), LAMBDA digits :
    With(JStr(Upper(ParamGet(params, K_algorithm, JStr(DEFAULT_ALGORITHM)).v)),
         LAMBDA algorithm :
    IF otp_type = T_hotp
    THEN Bind(PyInt(ParamGet(params, K_counter, JInt(DEFAULT_COUNTER))), LAMBDA counter :
             HOTPEntry(issuer, secret, account, JInt(digits), JInt(counter), algorithm))
    ELSE Bind(PyInt(ParamGet(params, K_period, JInt(DEFAULT_PERIOD))), LAMBDA period :
             TOTPEntry(issuer, secret, account, JInt(digits), JInt(period), algorithm))))

\* lines 218-231: issuer and account from the label "issuer:account" (colon
\* is the position of its first ":") and from the issuer parameter
ParseOtpauthLabel(otp_type, params, label, colon, secret, qissuer) ==
    With(IF Truthy(qissuer) THEN qissuer
         ELSE IF colon > 0 THEN JStr(SubSeq(label, 1, colon - 1)) ELSE JStr(label),
         LAMBDA issuer :
    IF ~Truthy(issuer) THEN Raise("ParseError", "issuer")
    ELSE ParseOtpauthEntry(otp_type, params, issuer, secret,
             IF colon > 0 THEN JStr(SubSeq(label, colon + 1, Len(label))) ELSE None))

\* lines 210-215: the parameters and the secret
ParseOtpauthParams(otp_type, label, params) ==
    With(ParamGet(params, K_secret, None), LAMBDA secret :
    IF ~Truthy(secret) THEN Raise("ParseError", "secret")
    ELSE ParseOtpauthLabel(otp_type, params, label, Find(label, ":"), secret,
                           ParamGet(params, K_issuer, None)))

\* the try block of parse_otpauth_url
ParseOtpauthBody(url) ==
    With(UrlParse(url), LAMBDA parsed :
    With(Lower(parsed.netloc), LAMBDA otp_type :
    IF otp_type \notin {T_totp, T_hotp} THEN Raise("ParseError", "type") ELSE
    With(Unquote(LStripSet(parsed.path, {"/"})), LAMBDA label :
    IF label = <<>> THEN Raise("ParseError", "label")
    ELSE ParseOtpauthParams(otp_type, label, ParseQs(parsed.query)))))

\* OTPFactory.parse_otpauth_url(url)
ParseOtpauthUrl(url) ==
    IF ~StartsWith(url, OtpauthPrefix) THEN Raise("ParseError", "scheme")
    ELSE WrapFactoryErrors(ParseOtpauthBody(url))

S_TOTP == <<"T","O","T","P">>

S_HOTP == <<"H","O","T","P">>

\* the try block of create_from_2fas
Create2fasBody(token_type, issuer, secret, account, digits, algorithm, otp_data) ==
    IF token_type = S_HOTP
    THEN Bind(PyInt(DictGet(otp_data, "counter", JInt(DEFAULT_COUNTER))), LAMBDA counter :
             HOTPEntry(issuer, secret, IF Truthy(account) THEN account ELSE None,
                       JInt(digits), JInt(counter), JStr(algorithm)))
    ELSE Bind(PyInt(DictGet(otp_data, "period", JInt(DEFAULT_PERIOD))), LAMBDA period :
             TOTPEntry(issuer, secret, IF Truthy(account) THEN account ELSE None,
                       JInt(digits), JInt(period), JStr(algorithm)))

\* lines 129-131: otp_data
OtpData(service) ==
    With(DictGet(service, "otp", EmptyDict), LAMBDA otp :
        IF otp.t = "dict" THEN otp ELSE EmptyDict)

\* Create2fasEntry, were tokenType compared as it is written
Create2fasEntryCaseSensitive(secret, name, otp_data) ==
    With(DictGet(otp_data, "tokenType", JStr(S_TOTP)).v, LAMBDA token_type :
    Bind(PyInt(DictGet(otp_data, "digits", JInt(DEFAULT_DIGITS))), LAMBDA digits :
    Bind(PyUpper(DictGet(otp_data, "algorithm", JStr(DEFAULT_ALGORITHM))), LAMBDA algorithm :
        WrapFactoryErrors(
            Create2fasBody(token_type, DictGet(otp_data, "issuer", name), secret,
                           DictGet(otp_data, "account", JStr(<<>>)), digits, algorithm,
                           otp_data)))))

\* lines 133-144, then the try block
Create2fasEntry(secret, name, otp_data) ==
    Bind(PyUpper(DictGet(otp_data, "tokenType", JStr(S_TOTP))), LAMBDA token_type :
    Bind(PyInt(DictGet(otp_data, "digits", JInt(DEFAULT_DIGITS))), LAMBDA digits :
    Bind(PyUpper(DictGet(otp_data, "algorithm", JStr(DEFAULT_ALGORITHM))), LAMBDA algorithm :
        WrapFactoryErrors(
            Create2fasBody(token_type, DictGet(otp_data, "issuer", name), secret,
                           DictGet(otp_data, "account", JStr(<<>>)), digits, algorithm,
                           otp_data)))))

\* CreateFrom2fas, were the issuer of the otp sub-map to stand in for the name
CreateFrom2fasIssuerForName(service) ==
    IF service.t # "dict" THEN Raise("ParseError", "service")
    ELSE IF ~Truthy(DictGet(service, "secret", JStr(<<>>))) THEN Raise("ParseError", "secret")
    ELSE IF ~Truthy(DictGet(OtpData(service), "issuer", DictGet(service, "name", JStr(<<>>))))
    THEN Raise("ParseError", "name")
    ELSE Create2fasEntry(DictGet(service, "secret", JStr(<<>>)),
                         DictGet(service, "name", JStr(<<>>)), OtpData(service))

\* OTPFactory.create_from_2fas(service)
CreateFrom2fas(service) ==
    IF service.t # "dict" THEN Raise("ParseError", "service")
    ELSE IF ~Truthy(DictGet(service, "secret", JStr(<<>>))) THEN Raise("ParseError", "secret")
    ELSE IF ~Truthy(DictGet(service, "name", JStr(<<>>))) THEN Raise("ParseError", "name")
    ELSE Create2fasEntry(DictGet(service, "secret", JStr(<<>>)),
                         DictGet(service, "name", JStr(<<>>)), OtpData(service))

\* x.lower() of a Python value
PyLower(x) == IF x.t # "str" THEN Raise("AttributeError", "lower") ELSE Ok(Lower(x.v))

\* d[k] of a dict value d
DictItem(d, k) == IF k \in DOMAIN d.v THEN Ok(d.v[k]) ELSE Raise("KeyError", k)

\* lines 55-74: the entry of the type, from the items of data
CreateFromDictEntry(otp_type, data) ==
    IF otp_type \notin {T_totp, T_hotp} THEN Raise("ParseError", "type") ELSE
    Bind(DictItem(data, "issuer"), LAMBDA issuer :
    Bind(DictItem(data, "secret"), LAMBDA secret :
        IF otp_type = T_totp
        THEN TOTPEntry(issuer, secret, DictGet(data, "account", None),
                       DictGet(data, "digits", JInt(DEFAULT_DIGITS)),
                       DictGet(data, "period", JInt(DEFAULT_PERIOD)),
                       DictGet(data, "algorithm", JStr(DEFAULT_ALGORITHM)))
        ELSE HOTPEntry(issuer, secret, DictGet(data, "account", None),
                       DictGet(data, "digits", JInt(DEFAULT_DIGITS)),
                       DictGet(data, "counter", JInt(0)),
                       DictGet(data, "algorithm", JStr(DEFAULT_ALGORITHM)))))

\* CreateFromDict, were it to close as create_from_2fas does
CreateFromDictWrapped(data) ==
    IF data.t # "dict" THEN Raise("AttributeError", "get")
    ELSE Bind(PyLower(DictGet(data, "type", JStr(T_totp))), LAMBDA otp_type :
             WrapFactoryErrors(CreateFromDictEntry(otp_type, data)))

\* OTPFactory.create_from_dict(data)
CreateFromDict(data) ==
    IF data.t # "dict" THEN Raise("AttributeError", "get")
    ELSE Bind(PyLower(DictGet(data, "type", JStr(T_totp))), LAMBDA otp_type :
             CreateFromDictEntry(otp_type, data))

\* ------------------------------------------------------------------------
\* Bytes, base64 text and AES-GCM, symbolically
\* ------------------------------------------------------------------------
\* A bytes value is a record with its length; a ciphertext names the key and
\* iv it was sealed with and its plaintext.  A str holding base64 text is
\* [t |-> "str", seg |-> segment]; a str holding an encrypted blob is
\* [t |-> "str", parts |-> <<segment, ...>>], the segments being what
\* strip().split(":") returns.

PBKDF2_ITERATIONS == 10000

PBKDF2_KEY_LENGTH == 32

MAX_PASSWORD_ATTEMPTS == 3

EmptyBytes == [kind |-> "empty", len |-> 0]

\* base64 text that decodes to raw
B64(raw) == [raw |-> raw, ok |-> TRUE]

\* text outside the base64 alphabet
NotB64 == [ok |-> FALSE]

JB64(seg) == [t |-> "str", seg |-> seg]

JBlob(parts) == [t |-> "str", parts |-> parts]

\* hashlib.pbkdf2_hmac("sha256", password, salt, iterations, dklen)
Pbkdf2(password, salt, iterations, dklen) ==
    [kind |-> "pbkdf2", len |-> dklen, salt |-> salt, pw |-> password, iter |-> iterations]

\* the ciphertext (with its tag) of plain under key and iv
Seal(key, iv, plain) == [kind |-> "ct", len |-> 48, key |-> key, iv |-> iv, plain |-> plain]

JsonInvalid == [t |-> "invalidjson"]

\* b64decode(x, validate=True)
B64Decode(seg) == IF seg.ok THEN Ok(seg.raw) ELSE Raise("binascii.Error", "base64")

\* AESGCM(key).decrypt(iv, data, None): a nonce outside 8..128 bytes is a
\* ValueError; anything but the ciphertext sealed with this key and iv fails
\* authentication
AesGcmDecrypt(key, iv, data) ==
    IF iv.len < 8 \/ iv.len > 128 THEN Raise("ValueError", "nonce")
    ELSE IF data.kind = "ct" /\ data.key = key /\ data.iv = iv THEN Ok(data.plain)
    ELSE Raise("InvalidTag", "")

\* json.loads(text)
JsonLoads(text) ==
    IF text.t = "invalidjson" THEN Raise("JSONDecodeError", "json") ELSE Ok(text)

\* ------------------------------------------------------------------------
\* TwoFASProcessor: the pure helpers (BackupProcessors/twofas.py)
\* ------------------------------------------------------------------------

SupportedFormats == {".2fas", ".zip", ".json"}

\* path.suffix.lower()
LowerSuffix(suffix) ==
    CASE suffix = ".JSON" -> ".json"
      [] suffix = ".ZIP"  -> ".zip"
      [] OTHER            -> suffix

IsValid2fasFormat(data) ==
    \/ /\ data.t = "dict"
       /\ (DictHas(data, "services") \/ DictHas(data, "entries") \/ DictHas(data, "secret"))
    \/ /\ data.t = "list"
       /\ data.v # <<>>
       /\ data.v[1].t = "dict"
       /\ DictHas(data.v[1], "secret")

IsEncryptedBackup(data) ==
    /\ data.t = "dict"
    /\ LET encrypted == DictGet(data, "servicesEncrypted", None) IN
       /\ encrypted.t = "str"
       /\ ("v" \in DOMAIN encrypted => Strip(encrypted.v) # <<>>)

\* blob.strip().split(":") if isinstance(blob, str) else []
\* (a str of the model that is not an encrypted blob holds no base64 text)
BlobParts(blob) ==
    IF blob.t # "str" THEN <<>>
    ELSE IF "parts" \in DOMAIN blob THEN blob.parts
    ELSE With(SplitOn(Strip(blob.v), ":"), LAMBDA ps :
             [i \in DOMAIN ps |-> IF ps[i] = <<>> THEN B64(EmptyBytes) ELSE NotB64])

\* lines 330-349, on the parts of the blob
SplitParts(parts) ==
    IF Len(parts) # 3 THEN Raise("CorruptedBackupError", "blob structure")
    ELSE IF ~IsOk(B64Decode(parts[1])) \/ ~IsOk(B64Decode(parts[2]))
               \/ ~IsOk(B64Decode(parts[3]))
         THEN Raise("CorruptedBackupError", "blob base64")
    ELSE IF parts[1].raw.len = 0 \/ parts[3].raw.len = 0
         THEN Raise("CorruptedBackupError", "blob data or iv missing")
    ELSE Ok([data |-> parts[1].raw, salt |-> parts[2].raw, iv |-> parts[3].raw])

SplitEncryptedBlob(blob) == SplitParts(BlobParts(blob))

\* ResolveKey, were the length of the embedded key not looked at
ResolveKeyOfAnyLength(password, key_encoded, salt) ==
    IF Truthy(key_encoded)
    THEN IF key_encoded.t # "str" THEN Raise("TypeError", "b64decode")
         ELSE With(IF "seg" \in DOMAIN key_encoded
                   THEN B64Decode(key_encoded.seg) ELSE B64Decode(NotB64), LAMBDA key_bytes :
              IF ~IsOk(key_bytes) THEN Raise("CorruptedBackupError", "key encoding")
              ELSE key_bytes)
    ELSE IF password = None THEN Raise("CorruptedBackupError", "password required")
    ELSE Ok(Pbkdf2(password.v, salt, PBKDF2_ITERATIONS, PBKDF2_KEY_LENGTH))

\* _resolve_key
ResolveKey(password, key_encoded, salt) ==
    IF Truthy(key_encoded)
    THEN IF key_encoded.t # "str" THEN Raise("TypeError", "b64decode")
         ELSE With(IF "seg" \in DOMAIN key_encoded
                   THEN B64Decode(key_encoded.seg) ELSE B64Decode(NotB64), LAMBDA key_bytes :
              IF ~IsOk(key_bytes) THEN Raise("CorruptedBackupError", "key encoding")
              ELSE IF key_bytes.val.len \notin {16, 24, 32}
                   THEN Raise("CorruptedBackupError", "key length")
              ELSE key_bytes)
    ELSE IF password = None THEN Raise("CorruptedBackupError", "password required")
    ELSE Ok(Pbkdf2(password.v, salt, PBKDF2_ITERATIONS, PBKDF2_KEY_LENGTH))

\* lines 310-318: InvalidTag passes, every other failure of the decryption
\* or of the UTF-8 decoding becomes a CorruptedBackupError
DecryptedText(p) ==
    IF p.exc = "InvalidTag" THEN p
    ELSE IF ~IsOk(p) THEN Raise("CorruptedBackupError", "decrypt failed")
    ELSE IF ~p.val.utf8 THEN Raise("CorruptedBackupError", "decrypt failed")
    ELSE Ok(p.val.text)

\* _decrypt_encrypted_blob: the plaintext as text, InvalidTag, or a
\* CorruptedBackupError
DecryptEncryptedBlob(blob, password, key_encoded) ==
    Bind(SplitEncryptedBlob(blob), LAMBDA s :
    Bind(ResolveKey(password, key_encoded, s.salt), LAMBDA key :
        DecryptedText(AesGcmDecrypt(key, s.iv, s.data))))

\* data.get("keyEncoded") or data.get("key")
KeyEncoded(data) == PyOr(DictGet(data, "keyEncoded", None), DictGet(data, "key", None))

ServicesEncrypted(data) == DictGet(data, "servicesEncrypted", None)

ReferenceEncrypted(data) == DictGet(data, "reference", None)

\* NeedsFirstPrompt, were the embedded key not looked at
NeedsFirstPromptIgnoringKey(key_encoded, password) == password = None

\* line 218: the prompt before the first attempt
NeedsFirstPrompt(key_encoded, password) == key_encoded = None /\ password = None

\* Exhausted, were the comparison of line 264 strict
ExhaustedLate(attempts) == attempts > MAX_PASSWORD_ATTEMPTS

\* line 264: no attempt is left
Exhausted(attempts) == attempts >= MAX_PASSWORD_ATTEMPTS

\* Retryable, were every failure of the try block taken for a wrong password
RetryableAlways(r) == ~IsOk(r)

\* line 256: the exception that stands for a wrong password or key
Retryable(r) == r.exc = "InvalidTag"

\* ReferenceChecked, were InvalidTag not caught at line 245
ReferenceCheckedStrictly(r) == IF IsOk(r) THEN Ok(TRUE) ELSE r

\* lines 237-249: what the decryption of the reference blob leads to:
\* InvalidTag is logged, any other failure propagates
ReferenceChecked(r) ==
    IF r.exc = "InvalidTag" THEN Ok(FALSE) ELSE IF IsOk(r) THEN Ok(TRUE) ELSE r

CheckReference(data, password) ==
    IF ~Truthy(ReferenceEncrypted(data)) THEN Ok(TRUE)
    ELSE ReferenceChecked(
             DecryptEncryptedBlob(ReferenceEncrypted(data), password, KeyEncoded(data)))

\* lines 232-234: data_copy
DataCopy(data, services_payload) ==
    JDict([k \in (DOMAIN data.v \cup {"services"}) \ {"servicesEncrypted"} |->
              IF k = "services" THEN services_payload ELSE data.v[k]])

\* lines 223-230: the primary blob decrypted and parsed
DecryptServices(data, password) ==
    Bind(DecryptEncryptedBlob(ServicesEncrypted(data), password, KeyEncoded(data)),
         LAMBDA decrypted_services : JsonLoads(decrypted_services))

\* lines 222-254, the try block of one loop iteration: data_copy, or the
\* exception that leaves the block
TryDecrypt(data, password) ==
    Bind(DecryptServices(data, password), LAMBDA services_payload :
    Bind(CheckReference(data, password), LAMBDA checked :
        Ok(DataCopy(data, services_payload))))

\* CachesPassword, were no password ever cached
CachesPasswordNever(key_encoded, password) == FALSE

\* line 251: the password is cached
CachesPassword(key_encoded, password) == key_encoded = None /\ password # None

\* _create_otp_entry_from_service: the entry, or None
CreateOtpEntryFromService(service) ==
    IF service.t # "dict" THEN None
    ELSE With(CreateFrom2fas(service), LAMBDA r : IF IsOk(r) THEN r.val ELSE None)

\* lines 181-190: the candidate list
ServicesOf(data) ==
    IF data.t = "dict"
    THEN IF DictHas(data, "services") THEN data.v["services"]
         ELSE IF DictHas(data, "entries") THEN data.v["entries"]
         ELSE JList(<<data>>)
    ELSE IF data.t = "list" THEN data
    ELSE JList(<<>>)

\* what "for service in services" iterates over: the items of a list, the
\* keys of a dict, the characters of a str; anything else is a TypeError
Iterate(x) ==
    CASE x.t = "list" -> Ok(x.v)
      [] x.t = "dict" -> Ok([i \in 1..Cardinality(DOMAIN x.v) |-> JStr(<<"k">>)])
      [] x.t = "str" /\ "v" \in DOMAIN x -> Ok([i \in DOMAIN x.v |-> JStr(<<x.v[i]>>)])
      [] OTHER -> Raise("TypeError", "not iterable")

RECURSIVE ExtractLoopAborting(_)
\* ExtractLoop, were the first candidate that fails to end the loop
ExtractLoopAborting(services) ==
    IF services = <<>> THEN <<>>
    ELSE With(CreateOtpEntryFromService(Head(services)), LAMBDA e :
             IF e # None THEN <<e>> \o ExtractLoopAborting(Tail(services)) ELSE <<>>)

RECURSIVE ExtractLoop(_)
\* lines 192-195
ExtractLoop(services) ==
    IF services = <<>> THEN <<>>
    ELSE With(CreateOtpEntryFromService(Head(services)), LAMBDA e :
             IF e # None THEN <<e>> ELSE <<>>)
         \o ExtractLoop(Tail(services))

\* _extract_entries_from_data
ExtractEntriesFromData(data) ==
    Bind(Iterate(ServicesOf(data)), LAMBDA services : Ok(ExtractLoop(services)))

\* json.load(f) of a file or archive member
JsonLoad(body) ==
    IF body.fmt = "json" THEN Ok(body.data) ELSE Raise("JSONDecodeError", "json")

\* the *.json members of an archive, in namelist() order
JsonFiles(body) == SelectSeq(body.members, LAMBDA m : m.json_name)

RECURSIVE AnyValidMember(_)
\* the loop of _is_valid_2fas_zip: the first member that is valid answers
\* True, a member that does not parse raises (and the answer is False)
AnyValidMember(members) ==
    IF members = <<>> THEN FALSE
    ELSE /\ IsOk(JsonLoad(Head(members).body))
         /\ \/ IsValid2fasFormat(Head(members).body.data)
            \/ AnyValidMember(Tail(members))

\* TwoFASProcessor.can_process
CanProcess2fas(f) ==
    /\ f.exists
    /\ LowerSuffix(f.suffix) \in SupportedFormats
    /\ IF LowerSuffix(f.suffix) \in {".2fas", ".json"}
       THEN IsOk(JsonLoad(f.body)) /\ IsValid2fasFormat(f.body.data)
       ELSE f.body.fmt = "zip" /\ AnyValidMember(JsonFiles(f.body))

\* ------------------------------------------------------------------------
\* The inputs: services, documents, files
\* ------------------------------------------------------------------------

\* the longest candidate list of a document
MaxServices == 3

\* the most members of an archive
MaxMembers == 2

SecretA == <<"J","B","S","W","Y","3","D","P">>

SvcTotp == JDict([secret |-> JStr(SecretA), name |-> JStr(<<"A">>)])

SvcHotp ==
    JDict([secret |-> JStr(SecretA), name |-> JStr(<<"B">>),
           otp |-> JDict([counter |-> JStr(<<"5">>), tokenType |-> JStr(S_HOTP)])])

SvcNoSecret == JDict([name |-> JStr(<<"C">>)])

SvcBadDigits ==
    JDict([secret |-> JStr(SecretA), name |-> JStr(<<"D">>),
           otp |-> JDict([digits |-> JStr(<<"x">>)])])

SvcNotMap == JInt(7)

Candidates == {SvcTotp, SvcHotp, SvcNoSecret, SvcNotMap}

SeqsUpTo(S, n) == UNION {[1..k -> S] : k \in 0..n}

CandidateLists == SeqsUpTo(Candidates, MaxServices) \cup {<<SvcBadDigits, SvcTotp>>}

PwP == JStr(<<"p">>)

PwQ == JStr(<<"q">>)

Passwords == {PwP, PwQ}

Salt1 == [kind |-> "salt", len |-> 16, id |-> "s1"]

Iv1 == [kind |-> "iv", len |-> 12, id |-> "n1"]

IvShort == [kind |-> "iv", len |-> 4, id |-> "n2"]

RawK1 == [kind |-> "raw", len |-> 32, id |-> "k1"]

RawK2 == [kind |-> "raw", len |-> 16, id |-> "k2"]

RawK20 == [kind |-> "raw", len |-> 20, id |-> "k3"]

KeyOfP == Pbkdf2(PwP.v, Salt1, PBKDF2_ITERATIONS, PBKDF2_KEY_LENGTH)

KeyOfQ == Pbkdf2(PwQ.v, Salt1, PBKDF2_ITERATIONS, PBKDF2_KEY_LENGTH)

Payload == JList(<<SvcHotp, SvcNoSecret, SvcTotp>>)

PlainServices == [text |-> Payload, utf8 |-> TRUE]

PlainNotJson == [text |-> JsonInvalid, utf8 |-> TRUE]

PlainNotUtf8 == [text |-> JsonInvalid, utf8 |-> FALSE]

PlainNotIterable == [text |-> JInt(1), utf8 |-> TRUE]

\* "ciphertext:salt:iv"
Blob(key, iv, plain) == JBlob(<<B64(Seal(key, iv, plain)), B64(Salt1), B64(iv)>>)

\* primary blobs that get as far as AES-GCM
SealedBlobs(key) ==
    { Blob(key, Iv1, PlainServices), Blob(key, Iv1, PlainNotJson),
      Blob(key, Iv1, PlainNotUtf8), Blob(key, IvShort, PlainServices),
      Blob(key, Iv1, PlainNotIterable) }

\* primary blobs with a structural defect
MalformedBlobs ==
    { JBlob(<<B64(Seal(KeyOfP, Iv1, PlainServices)), B64(Salt1)>>),
      JBlob(<<B64(Seal(KeyOfP, Iv1, PlainServices)), B64(Salt1), B64(Iv1), B64(Iv1)>>),
      JBlob(<<NotB64, B64(Salt1), B64(Iv1)>>),
      JBlob(<<B64(Seal(KeyOfP, Iv1, PlainServices)), NotB64, B64(Iv1)>>),
      JBlob(<<B64(Seal(KeyOfP, Iv1, PlainServices)), B64(Salt1), NotB64>>),
      JBlob(<<B64(EmptyBytes), B64(Salt1), B64(Iv1)>>),
      JBlob(<<B64(Seal(KeyOfP, Iv1, PlainServices)), B64(Salt1), B64(EmptyBytes)>>),
      JStr(<<"x">>) }

Absent == [t |-> "absent"]

NoFields == [k \in {} |-> None]

Field(k, v) == IF v = Absent THEN NoFields ELSE (k :> v)

\* an encrypted container
EncDoc(blob, reference, keyEncoded, key) ==
    JDict(("services" :> JList(<<>>)) @@ ("servicesEncrypted" :> blob)
          @@ Field("reference", reference) @@ Field("keyEncoded", keyEncoded)
          @@ Field("key", key))

References(key) ==
    { Absent, Blob(key, Iv1, PlainNotJson), Blob(KeyOfQ, Iv1, PlainNotJson),
      JBlob(<<B64(Salt1), B64(Iv1)>>), JStr(<<>>), JInt(5) }

\* (keyEncoded, key) of a container that carries a key field
KeyFields ==
    { <<JB64(B64(RawK1)), Absent>>, <<Absent, JB64(B64(RawK1))>>,
      <<JStr(<<>>), JB64(B64(RawK1))>>, <<JB64(B64(RawK2)), JB64(B64(RawK1))>>,
      <<JB64(B64(RawK20)), Absent>>, <<JB64(NotB64), Absent>>, <<JInt(5), Absent>>,
      <<JStr(<<>>), Absent>>, <<JStr(<<>>), JStr(<<>>)>>, <<Absent, JStr(<<>>)>> }

EncryptedDocs ==
    {EncDoc(b, Absent, Absent, Absent) :
         b \in SealedBlobs(KeyOfP) \cup MalformedBlobs \cup {Blob(KeyOfQ, Iv1, PlainServices)}}
    \cup {EncDoc(Blob(KeyOfP, Iv1, PlainServices), r, Absent, Absent) : r \in References(KeyOfP)}
    \cup {EncDoc(b, Absent, k[1], k[2]) :
              b \in {Blob(RawK1, Iv1, PlainServices), Blob(KeyOfP, Iv1, PlainServices),
                     Blob(RawK1, Iv1, PlainNotJson), JStr(<<"x">>)},
              k \in KeyFields}
    \cup {EncDoc(Blob(RawK1, Iv1, PlainServices), r, JB64(B64(RawK1)), Absent) :
              r \in References(RawK1)}

PlainDocs ==
    {JDict([services |-> JList(l)]) : l \in CandidateLists}
    \cup { JDict([entries |-> JList(<<SvcTotp, SvcNoSecret>>)]),
           JDict([services |-> JList(<<SvcHotp>>), entries |-> JList(<<SvcTotp>>)]),
           JList(<<SvcTotp, SvcNotMap, SvcHotp>>),
           JList(<<SvcNotMap, SvcTotp>>),
           JList(<<>>),
           SvcTotp,
           JDict([secret |-> JStr(SecretA)]),
           JDict([other |-> JInt(1)]),
           JDict([services |-> JInt(5)]),
           JDict([services |-> JDict([a |-> SvcTotp])]),
           JDict([services |-> JList(<<>>), servicesEncrypted |-> JStr(<<" ">>)]),
           JDict([servicesEncrypted |-> Blob(KeyOfP, Iv1, PlainServices)]),
           JInt(3) }

JsonBody(doc) == [data |-> doc, fmt |-> "json"]

Garbage == [fmt |-> "garbage"]

ZipBody(members) == [fmt |-> "zip", members |-> members]

File(suffix, body) == [body |-> body, suffix |-> suffix, exists |-> TRUE]

Member(json_name, body) == [body |-> body, json_name |-> json_name]

Members ==
    { Member(TRUE, JsonBody(JDict([services |-> JList(<<SvcTotp>>)]))),
      Member(TRUE, JsonBody(JDict([services |-> JList(<<>>)]))),
      Member(TRUE, JsonBody(JDict([other |-> JInt(1)]))),
      Member(TRUE, JsonBody(EncDoc(Blob(KeyOfP, Iv1, PlainServices), Absent, Absent, Absent))),
      Member(TRUE, JsonBody(EncDoc(Blob(KeyOfQ, Iv1, PlainServices), Absent, Absent, Absent))),
      Member(TRUE, Garbage),
      Member(FALSE, Garbage) }

Files ==
    {File(".2fas", JsonBody(d)) : d \in PlainDocs \cup EncryptedDocs}
    \cup {File(x, JsonBody(JDict([services |-> JList(<<SvcTotp, SvcHotp>>)]))) :
              x \in {".json", ".JSON", ".txt", ".zip"}}
    \cup {File(".json", JsonBody(JDict([other |-> JInt(1)]))),
          File(".json", Garbage), File(".zip", Garbage),
          [body |-> Garbage, suffix |-> ".2fas", exists |-> FALSE]}
    \cup {File(".zip", ZipBody(ms)) : ms \in SeqsUpTo(Members, MaxMembers)}
    \cup {File(".json", ZipBody(<<>>))}

\* the registries of the model: the one of the code, <<"2FAS">>, and lists
\* that also hold a second processor (a BaseBackupProcessor that takes every
\* existing .json file and returns no entry)
Registries == { <<"2FAS">>, <<"2FAS", "Other">>, <<"Other", "2FAS">> }

\* ------------------------------------------------------------------------
\* The registry (BackupProcessors/__init__.py, BackupProcessors/base.py)
\* ------------------------------------------------------------------------

\* can_process of the second processor of the model's registries
OtherCanProcess(f) == f.exists /\ LowerSuffix(f.suffix) = ".json"

\* processor.can_process(file_path)
CanProcess(processor, f) ==
    IF processor = "2FAS" THEN CanProcess2fas(f) ELSE OtherCanProcess(f)

RECURSIVE GetLastProcessor(_, _)
\* GetProcessor, were the last processor that can process the file returned
GetLastProcessor(processors, f) ==
    IF processors = <<>> THEN "None"
    ELSE IF CanProcess(processors[Len(processors)], f) THEN processors[Len(processors)]
    ELSE GetLastProcessor(SubSeq(processors, 1, Len(processors) - 1), f)

RECURSIVE GetProcessor(_, _)
\* BackupProcessorFactory.get_processor: the loop over self._processors
GetProcessor(processors, f) ==
    IF processors = <<>> THEN "None"
    ELSE IF CanProcess(Head(processors), f) THEN Head(processors)
    ELSE GetProcessor(Tail(processors), f)

\* ------------------------------------------------------------------------
\* State
\* ------------------------------------------------------------------------

VARIABLES
    registry,      \* BackupProcessorFactory._processors
    tty,           \* sys.stdin.isatty()
    cached,        \* TwoFASProcessor._cached_password
    pc,            \* where the running call is
    via,           \* "factory" when the factory made the call, "direct" otherwise
    file,          \* the file of the call
    chosen,        \* what get_processor returned
    idx,           \* _process_zip_backup: the position in json_files
    found,         \* _process_zip_backup: found_valid_data
    entries,       \* _process_zip_backup: entries
    data,          \* the document being decrypted or extracted from
    password,      \* _decrypt_backup_if_needed: password
    attempts,      \* _decrypt_backup_if_needed: attempts
    outcome,       \* how the processor's process_backup ended
    reason,        \* the message of the exception it raised
    result,        \* the list it returned
    fOutcome,      \* how the factory's process_backup ended
    fResult,       \* the list the factory returned
    handles,       \* the open file and archive handles
    promptCalls,   \* calls of _prompt_for_password in this run of the decryption
    getpassCalls,  \* calls of getpass in this run of the decryption
    tries,         \* AES-GCM attempts on the primary blob with a derived key
    entry,         \* an OTP entry
    url,           \* its otpauth URI
    parsed,        \* what parse_otpauth_url returned for url
    call           \* the last call of the entry model or of the OTP factory

envVars == <<registry, tty>>

entryVars == <<entry, url, parsed, call>>

zipVars == <<idx, found, entries>>

countVars == <<promptCalls, getpassCalls, tries>>

factoryVars == <<chosen, fOutcome, fResult>>

vars ==
    <<registry, tty, cached, pc, via, file, chosen, idx, found, entries, data, password,
      attempts, outcome, reason, result, fOutcome, fResult, handles, promptCalls,
      getpassCalls, tries, entry, url, parsed, call>>

NoFile == [body |-> Garbage, suffix |-> "", exists |-> FALSE]

NoUrl == <<>>

NoCall == [op |-> "none"]

\* the processor and the factory, constructed and idle
InitProcessor ==
    /\ cached = None
    /\ pc = "idle"
    /\ via = "direct"
    /\ file = NoFile
    /\ chosen = "None"
    /\ idx = 0
    /\ found = FALSE
    /\ entries = <<>>
    /\ data = None
    /\ password = None
    /\ attempts = 0
    /\ outcome = "none"
    /\ reason = ""
    /\ result = <<>>
    /\ fOutcome = "none"
    /\ fResult = <<>>
    /\ handles = {}
    /\ promptCalls = 0
    /\ getpassCalls = 0
    /\ tries = 0

InitEntry ==
    /\ entry = None
    /\ url = NoUrl
    /\ parsed = None
    /\ call = NoCall

Init ==
    /\ registry \in Registries
    /\ tty \in BOOLEAN
    /\ InitProcessor
    /\ InitEntry

\* ------------------------------------------------------------------------
\* TwoFASProcessor.process_backup, step by step
\* ------------------------------------------------------------------------

IsZip == LowerSuffix(file.suffix) = ".zip"

\* WithExit, were the handles left as they are
WithExitLeavingOpen(open) == open

\* lines 140, 155 and 159: the with blocks that are left close the handles
\* they opened, on a return and on an exception
WithExit(open) == {}

\* process_backup is left: the with blocks close their handles, the locals
\* are gone, and the factory's frame is next when it made the call
Leave ==
    /\ pc' = IF via = "factory" THEN "factory_return" ELSE "done"
    /\ handles' = WithExit(handles)
    /\ data' = None
    /\ password' = None
    /\ idx' = 0
    /\ found' = FALSE
    /\ entries' = <<>>
    /\ UNCHANGED <<envVars, entryVars, via, file, factoryVars>>

\* process_backup returns res
Return(res) ==
    /\ outcome' = "returned"
    /\ reason' = ""
    /\ result' = res
    /\ Leave

\* the exception classes of the model: all of them derive from Exception
ExceptionClasses ==
    OTPErrorClasses \cup
    {"UnsupportedFormatError", "CorruptedBackupError", "JSONDecodeError", "BadZipFile",
     "InvalidTag", "UnicodeDecodeError", "ValueError", "TypeError", "AttributeError",
     "KeyError"}

\* ProcessBackupExcept, were the clause of lines 133-134 missing
ProcessBackupExceptOpen(r) == r

\* lines 129-134: UnsupportedFormatError and CorruptedBackupError are raised
\* again, every other Exception is replaced by a CorruptedBackupError, and
\* what is not an Exception passes
ProcessBackupExcept(r) ==
    IF r.exc = "UnsupportedFormatError" THEN r
    ELSE IF r.exc = "CorruptedBackupError" THEN r
    ELSE IF r.exc \in ExceptionClasses THEN Raise("CorruptedBackupError", r.why)
    ELSE r

\* Escape, were the entries extracted so far handed to the caller
EscapeKeepingEntries(r) ==
    /\ outcome' = ProcessBackupExcept(r).exc
    /\ reason' = r.why
    /\ result' = entries
    /\ Leave

\* r was raised inside the try of process_backup
Escape(r) ==
    /\ outcome' = ProcessBackupExcept(r).exc
    /\ reason' = r.why
    /\ result' = <<>>
    /\ Leave

\* processor.process_backup(f), called on the processor itself
Call(f) ==
    /\ pc = "idle"
    /\ pc' = "process_backup"
    /\ via' = "direct"
    /\ chosen' = "2FAS"
    /\ file' = f
    /\ UNCHANGED <<envVars, entryVars, cached, zipVars, data, password, attempts, outcome,
                   reason, result, fOutcome, fResult, handles, countVars>>

\* lines 120-128
ProcessBackup ==
    /\ pc = "process_backup"
    /\ IF ~file.exists \/ LowerSuffix(file.suffix) \notin SupportedFormats
       THEN /\ outcome' = "UnsupportedFormatError"
            /\ reason' = "2FAS"
            /\ result' = <<>>
            /\ Leave
       ELSE /\ pc' = IF IsZip THEN "zip" ELSE "json"
            /\ UNCHANGED <<envVars, entryVars, via, file, factoryVars, zipVars, data,
                           password, outcome, reason, result, handles>>
    /\ UNCHANGED <<cached, attempts, countVars>>

\* _process_json_backup, lines 140-144: the file is read and closed, then sniffed
ProcessJsonBackup ==
    /\ pc = "json"
    /\ IF ~IsOk(JsonLoad(file.body)) THEN Escape(JsonLoad(file.body))
       ELSE IF ~IsValid2fasFormat(file.body.data)
       THEN Escape(Raise("UnsupportedFormatError", "2FAS"))
       ELSE /\ pc' = "decrypt"
            /\ data' = file.body.data
            /\ UNCHANGED <<envVars, entryVars, via, file, factoryVars, zipVars, password,
                           outcome, reason, result, handles>>
    /\ UNCHANGED <<cached, attempts, countVars>>

\* _process_zip_backup, lines 152-156: the archive is opened
ProcessZipBackup ==
    /\ pc = "zip"
    /\ IF file.body.fmt # "zip" THEN Escape(Raise("BadZipFile", "not a zip file"))
       ELSE /\ pc' = "zip_member"
            /\ idx' = 1
            /\ found' = FALSE
            /\ entries' = <<>>
            /\ handles' = {"zip"}
            /\ UNCHANGED <<envVars, entryVars, via, file, factoryVars, data, password,
                           outcome, reason, result>>
    /\ UNCHANGED <<cached, attempts, countVars>>

\* lines 159-163, d being what json.load(f) returned or raised
ZipMemberLoaded(d) ==
       IF ~IsOk(d) THEN Escape(d)
       ELSE IF IsValid2fasFormat(d.val)
            THEN /\ found' = TRUE
                 /\ data' = d.val
                 /\ pc' = "decrypt"
                 /\ handles' = {"zip", "member"}
                 /\ UNCHANGED <<envVars, entryVars, via, file, factoryVars, idx, entries,
                                password, outcome, reason, result>>
            ELSE /\ idx' = idx + 1
                 /\ UNCHANGED <<envVars, entryVars, via, file, factoryVars, found, entries,
                                data, password, outcome, reason, result, handles, pc>>

\* lines 158-163: the next *.json member is opened, read and sniffed
ZipMember ==
    /\ pc = "zip_member"
    /\ idx <= Len(JsonFiles(file.body))
    /\ ZipMemberLoaded(JsonLoad(JsonFiles(file.body)[idx].body))
    /\ UNCHANGED <<cached, attempts, countVars>>

\* NoValidData, were the test of line 167 never true
NoValidDataNever(found_valid_data) == FALSE

\* line 167: not found_valid_data
NoValidData(found_valid_data) == ~found_valid_data

\* lines 167-170: after the last member
ZipEnd ==
    /\ pc = "zip_member"
    /\ idx > Len(JsonFiles(file.body))
    /\ IF NoValidData(found) THEN Escape(Raise("UnsupportedFormatError", "2FAS"))
       ELSE Return(entries)
    /\ UNCHANGED <<cached, attempts, countVars>>

\* the primary blob gets as far as AES-GCM with a key derived from password
DerivedKeyAttempt(d, pw) ==
    With(Bind(SplitEncryptedBlob(ServicesEncrypted(d)),
              LAMBDA s : ResolveKey(pw, KeyEncoded(d), s.salt)),
         LAMBDA k : IsOk(k) /\ k.val.kind = "pbkdf2")

\* NeedsDecryption, were every map taken for an encrypted container
NeedsDecryptionOfAnyMap(d) == d.t = "dict"

\* line 208: the document is an encrypted container
NeedsDecryption(d) == ~(d.t # "dict" \/ ~IsEncryptedBackup(d))

\* _decrypt_backup_if_needed, lines 208-219
DecryptBackupIfNeeded ==
    /\ pc = "decrypt"
    /\ IF ~NeedsDecryption(data)
       THEN /\ pc' = "extract"
            /\ UNCHANGED <<password, attempts, countVars>>
       ELSE /\ password' = cached
            /\ attempts' = 0
            /\ promptCalls' = 0
            /\ getpassCalls' = 0
            /\ tries' = 0
            /\ pc' = IF NeedsFirstPrompt(KeyEncoded(data), cached) THEN "prompt" ELSE "attempt"
    /\ UNCHANGED <<envVars, entryVars, cached, via, file, factoryVars, zipVars, data,
                   outcome, reason, result, handles>>

\* IsATty, were line 278 missing
IsATtyUnchecked == TRUE

\* line 278: sys.stdin.isatty()
IsATty == tty

\* _prompt_for_password, lines 278-291: up to the call of getpass
PromptForPassword ==
    /\ pc = "prompt"
    /\ promptCalls' = promptCalls + 1
    /\ IF ~IsATty
       THEN /\ Escape(Raise("CorruptedBackupError", "interactive only"))
            /\ UNCHANGED getpassCalls
       ELSE /\ pc' = "getpass"
            /\ getpassCalls' = getpassCalls + 1
            /\ UNCHANGED <<envVars, entryVars, via, file, factoryVars, zipVars, data,
                           password, outcome, reason, result, handles>>
    /\ UNCHANGED <<cached, attempts, tries>>

\* getpass returns what the user typed
GetpassReturn(pw) ==
    /\ pc = "getpass"
    /\ password' = pw
    /\ pc' = "attempt"
    /\ UNCHANGED <<envVars, entryVars, cached, via, file, factoryVars, zipVars, data,
                   attempts, outcome, reason, result, handles, countVars>>

\* lines 292-295: getpass raises EOFError or KeyboardInterrupt
GetpassCancel ==
    /\ pc = "getpass"
    /\ Escape(Raise("CorruptedBackupError", "cancelled"))
    /\ UNCHANGED <<cached, attempts, countVars>>

\* lines 254-274, r being what the try block returned or raised
AttemptEnds(r) ==
       IF IsOk(r)
       THEN /\ data' = r.val
            /\ cached' = IF CachesPassword(KeyEncoded(data), password) THEN password ELSE cached
            /\ pc' = "extract"
            /\ UNCHANGED <<envVars, entryVars, via, file, factoryVars, zipVars, password,
                           attempts, outcome, reason, result, handles>>
       ELSE IF Retryable(r)
       THEN IF KeyEncoded(data) # None
            THEN /\ Escape(Raise("CorruptedBackupError", "invalid key"))
                 /\ UNCHANGED <<cached, attempts>>
            ELSE /\ attempts' = attempts + 1
                 /\ UNCHANGED cached
                 /\ IF Exhausted(attempts + 1)
                    THEN Escape(Raise("CorruptedBackupError", "invalid password"))
                    ELSE /\ pc' = "prompt"
                         /\ UNCHANGED <<envVars, entryVars, via, file, factoryVars, zipVars,
                                        data, password, outcome, reason, result, handles>>
       ELSE IF r.exc = "JSONDecodeError"
       THEN /\ Escape(Raise("CorruptedBackupError", "invalid json after decryption"))
            /\ UNCHANGED <<cached, attempts>>
       ELSE /\ Escape(r)
            /\ UNCHANGED <<cached, attempts>>

\* one iteration of the loop of lines 221-274
Attempt ==
    /\ pc = "attempt"
    /\ tries' = IF DerivedKeyAttempt(data, password) THEN tries + 1 ELSE tries
    /\ AttemptEnds(TryDecrypt(data, password))
    /\ UNCHANGED <<promptCalls, getpassCalls>>

\* Extend, were the list of a member put before the entries there are
ExtendInFront(list, more) == more \o list

\* line 165: entries.extend(...)
Extend(list, more) == list \o more

\* line 148 (the list is returned) or line 165 (the list extends entries and
\* the loop goes to the next member), r being what _extract_entries_from_data
\* returned or raised
Extracted(r) ==
       IF ~IsOk(r) THEN Escape(r)
       ELSE IF IsZip
            THEN /\ entries' = Extend(entries, r.val)
                 /\ idx' = idx + 1
                 /\ pc' = "zip_member"
                 /\ handles' = {"zip"}
                 /\ data' = None
                 /\ UNCHANGED <<envVars, entryVars, via, file, factoryVars, found, password,
                                outcome, reason, result>>
            ELSE Return(r.val)

\* _extract_entries_from_data and what its caller does with the list
Extract ==
    /\ pc = "extract"
    /\ Extracted(ExtractEntriesFromData(data))
    /\ UNCHANGED <<cached, attempts, countVars>>

\* ------------------------------------------------------------------------
\* BackupProcessorFactory.process_backup
\* ------------------------------------------------------------------------

\* lines 87-92, up to the call of the processor
FactoryProcessBackup(f) ==
    /\ pc = "idle"
    /\ file' = f
    /\ via' = "factory"
    /\ chosen' = GetProcessor(registry, f)
    /\ pc' = CASE chosen' = "None"  -> "factory_raise"
               [] chosen' = "2FAS"  -> "process_backup"
               [] OTHER             -> "other_process_backup"
    /\ UNCHANGED <<envVars, entryVars, cached, zipVars, data, password, attempts, outcome,
                   reason, result, fOutcome, fResult, handles, countVars>>

\* line 90
FactoryRaise ==
    /\ pc = "factory_raise"
    /\ fOutcome' = "UnsupportedFormatError"
    /\ fResult' = <<>>
    /\ pc' = "done"
    /\ UNCHANGED <<envVars, entryVars, cached, via, file, chosen, zipVars, data, password,
                   attempts, outcome, reason, result, handles, countVars>>

\* process_backup of the second processor: it returns no entry
OtherProcessBackup ==
    /\ pc = "other_process_backup"
    /\ Return(<<>>)
    /\ UNCHANGED <<cached, attempts, countVars>>

\* line 92: what the processor returned or raised is the factory's
FactoryReturn ==
    /\ pc = "factory_return"
    /\ fOutcome' = outcome
    /\ fResult' = result
    /\ pc' = "done"
    /\ UNCHANGED <<envVars, entryVars, cached, via, file, chosen, zipVars, data, password,
                   attempts, outcome, reason, result, handles, countVars>>

\* the caller is done with what the call returned or raised; the processor
\* and the factory stay as they are for the next call
Release ==
    /\ pc = "done"
    /\ pc' = "idle"
    /\ via' = "direct"
    /\ file' = NoFile
    /\ chosen' = "None"
    /\ attempts' = 0
    /\ outcome' = "none"
    /\ reason' = ""
    /\ result' = <<>>
    /\ fOutcome' = "none"
    /\ fResult' = <<>>
    /\ promptCalls' = 0
    /\ getpassCalls' = 0
    /\ tries' = 0
    /\ UNCHANGED <<envVars, entryVars, cached, zipVars, data, password, handles>>

Next ==
    \/ \E f \in Files : Call(f)
    \/ \E f \in Files : FactoryProcessBackup(f)
    \/ ProcessBackup
    \/ ProcessJsonBackup
    \/ ProcessZipBackup
    \/ ZipMember
    \/ ZipEnd
    \/ DecryptBackupIfNeeded
    \/ PromptForPassword
    \/ \E pw \in Passwords : GetpassReturn(pw)
    \/ GetpassCancel
    \/ Attempt
    \/ Extract
    \/ FactoryRaise
    \/ OtherProcessBackup
    \/ FactoryReturn
    \/ Release

Spec == Init /\ [][Next]_vars

\* ------------------------------------------------------------------------
\* One entry's life: construction, counter updates, otpauth, parse_otpauth_url
\* ------------------------------------------------------------------------

\* the largest counter an update starts from
MaxCounter == 2

\* the largest steps of increment_counter
MaxSteps == 5

IssuerArgs ==
    { JStr(<<"A">>), JStr(<<"a", " ", "b">>), JStr(<<"A", ":", "%">>), JStr(<<"/">>),
      JStr(<<" ", "x", "/", "y", " ">>), JStr(<<" ">>), JStr(<<>>) }

SecretArgs ==
    { JStr(SecretA), JStr(<<"j", "b", " ", "s", "w", "-", "y", "3", "d", "p">>),
      JStr(<<"M", "F", "R", "G", "G", "=", "=", "=">>), JStr(<<"A", "1">>), JStr(<<>>) }

AccountArgs ==
    { None, JStr(<<>>), JStr(<<" ">>), JStr(<<"x">>), JStr(<<"a", ":", "b">>),
      JStr(<<"x", "/", "+", "&", "=">>), JStr(<<" ", "u", "@", "h", " ">>) }

DigitsArgs == { JInt(5), JInt(6), JInt(7), JStr(<<"8">>) }

PeriodArgs == { JInt(14), JInt(15), JInt(30), JStr(<<" ", "6", "0">>), JInt(300), JInt(301) }

CounterArgs == { JInt(-1), JInt(0), JInt(1), JStr(<<"1", "2">>) }

AlgorithmArgs ==
    { JStr(<<"S", "H", "A", "1">>), JStr(<<"s", "h", "a", "2", "5", "6">>),
      JStr(<<"S", "H", "A", "5", "1", "2">>), JStr(<<"M", "D", "5">>) }

\* the variables of the processor and of the registry
processorVars ==
    <<envVars, cached, pc, via, file, factoryVars, zipVars, data, password, attempts,
      outcome, reason, result, handles, countVars>>

\* a call: its name, its arguments, and what it returned or raised
Called(op, args, ret) == [op |-> op, args |-> args, ret |-> ret]

\* entry = TOTPEntry(...) or entry = HOTPEntry(...): r is the entry, or the
\* exception that left no object
Constructed(op, args, r) ==
    /\ call' = Called(op, args, r)
    /\ entry' = IF IsOk(r) THEN r.val ELSE None
    /\ url' = NoUrl
    /\ parsed' = None
    /\ UNCHANGED processorVars

\* entry = TOTPEntry(issuer, secret, account, digits, period, algorithm)
NewTOTPEntry ==
    /\ entry = None
    /\ call = NoCall
    /\ \E issuer \in IssuerArgs, secret \in SecretArgs, account \in AccountArgs,
          digits \in DigitsArgs, period \in PeriodArgs, algorithm \in AlgorithmArgs :
           Constructed("TOTPEntry",
                       [secret |-> secret, issuer |-> issuer, digits |-> digits,
                        algorithm |-> algorithm, account |-> account, period |-> period],
                       TOTPEntry(issuer, secret, account, digits, period, algorithm))

\* entry = HOTPEntry(issuer, secret, account, digits, counter, algorithm)
NewHOTPEntry ==
    /\ entry = None
    /\ call = NoCall
    /\ \E issuer \in IssuerArgs, secret \in SecretArgs, account \in AccountArgs,
          digits \in DigitsArgs, counter \in CounterArgs, algorithm \in AlgorithmArgs :
           Constructed("HOTPEntry",
                       [secret |-> secret, issuer |-> issuer, digits |-> digits,
                        algorithm |-> algorithm, account |-> account, counter |-> counter],
                       HOTPEntry(issuer, secret, account, digits, counter, algorithm))

IsHotp == entry # None /\ entry.type = "hotp"

\* a counter method of entry was called: r is the entry afterwards, or the
\* exception raised before anything was assigned; ret is what the method
\* returns
Updated(op, args, r, ret) ==
    /\ call' = Called(op, args, IF IsOk(r) THEN Ok(ret) ELSE r)
    /\ entry' = IF IsOk(r) THEN r.val ELSE entry
    /\ url' = NoUrl
    /\ parsed' = None
    /\ UNCHANGED processorVars

\* entry.increment_counter(steps): the new counter is returned
DoIncrementCounter(steps) ==
    /\ IsHotp
    /\ entry.counter <= MaxCounter
    /\ Updated("increment_counter", [steps |-> steps, self |-> entry],
               IncrementCounter(entry, steps), entry.counter + steps)

\* entry.sync_counter(new_value)
DoSyncCounter(new_value) ==
    /\ IsHotp
    /\ entry.counter <= MaxCounter
    /\ Updated("sync_counter", [new_value |-> new_value, self |-> entry],
               SyncCounter(entry, new_value), None)

\* entry.reset_counter()
DoResetCounter ==
    /\ IsHotp
    /\ Updated("reset_counter", [self |-> entry], ResetCounter(entry), None)

\* url = entry.otpauth
ReadOtpauth ==
    /\ entry # None
    /\ url = NoUrl
    /\ url' = Otpauth(entry)
    /\ parsed' = None
    /\ call' = Called("otpauth", [self |-> entry], Ok(url'))
    /\ UNCHANGED <<processorVars, entry>>

\* parsed = OTPFactory.parse_otpauth_url(url), or the exception it raised
DoParseOtpauthUrl ==
    /\ url # NoUrl
    /\ parsed = None
    /\ parsed' = ParseOtpauthUrl(url)
    /\ call' = Called("parse_otpauth_url", [url |-> url], parsed')
    /\ UNCHANGED <<processorVars, entry, url>>

InitOneEntry ==
    /\ registry = <<"2FAS">>
    /\ tty = FALSE
    /\ InitProcessor
    /\ InitEntry

NextEntry ==
    \/ NewTOTPEntry
    \/ NewHOTPEntry
    \/ \E steps \in -1..MaxSteps : DoIncrementCounter(steps)
    \/ \E new_value \in -1..MaxCounter : DoSyncCounter(new_value)
    \/ DoResetCounter
    \/ ReadOtpauth
    \/ DoParseOtpauthUrl

SpecEntry == InitOneEntry /\ [][NextEntry]_vars

\* ------------------------------------------------------------------------
\* The OTP factory called on its own: one call, on a URI, a service or a map
\* ------------------------------------------------------------------------

\* name=value
QField(name, value) == name \o <<"=">> \o value

UrlSchemes == { OtpauthPrefix, <<"h", "t", "t", "p", ":", "/", "/">> }

UrlTypes == { T_totp, T_hotp, S_TOTP, <<"x">> }

UrlLabels ==
    { <<"A">>, <<"A", ":", "b">>, <<"A", "%", "3", "A", "b", ":", "c">>,
      <<"/", "A", "%", "2", "0", "b">>, <<":", "b">>, <<>> }

SecretFields == { <<>>, QField(K_secret, SecretA), QField(K_secret, <<>>) }

IssuerFields == { <<>>, QField(K_issuer, <<"I">>), QField(K_issuer, <<>>) }

DigitsFields == { <<>>, QField(K_digits, <<"8">>), QField(K_digits, <<"x">>) }

SpecificFields ==
    { <<>>, QField(K_period, <<"6", "0">>), QField(K_period, <<"x">>),
      QField(K_counter, <<"5">>), QField(K_counter, <<"x">>) }

\* the query made of the fields that are there
QueryOf(fields) == JoinWith(SelectSeq(fields, LAMBDA f : f # <<>>), <<"&">>)

\* parse_otpauth_url(scheme type / label ? query)
DoParseGivenUrl ==
    /\ call = NoCall
    /\ \E scheme \in UrlSchemes, type \in UrlTypes, label \in UrlLabels,
          s \in SecretFields, i \in IssuerFields, d \in DigitsFields,
          x \in SpecificFields :
           With(scheme \o type \o <<"/">> \o label \o <<"?">> \o QueryOf(<<s, i, d, x>>),
                LAMBDA u :
                    call' = Called("parse_otpauth_url", [url |-> u], ParseOtpauthUrl(u)))
    /\ UNCHANGED <<processorVars, entry, url, parsed>>

\* the values of a service's secret and of its name
SecretValues == { Absent, JStr(SecretA), JStr(<<>>), None }

NameValues == { Absent, JStr(<<"A">>), JStr(<<>>), None }

OtpIssuerValues == { Absent, JStr(<<"I">>), JStr(<<>>) }

OtpAccountValues == { Absent, JStr(<<"b">>) }

TokenTypeValues ==
    { Absent, JStr(S_TOTP), JStr(S_HOTP), JStr(T_hotp), JStr(<<"H", "o", "t", "p">>) }

OtpDigitsValues ==
    { Absent, JInt(6), JStr(<<"6">>), JInt(8), JStr(<<"8">>), JStr(<<"x">>), None }

OtpPeriodValues == { Absent, JInt(60), JStr(<<"6", "0">>), JStr(<<"x">>), None }

OtpCounterValues == { Absent, JInt(5), JStr(<<"5">>), JStr(<<"x">>), None }

OtpAlgorithmValues == { Absent, JStr(<<"s", "h", "a", "2", "5", "6">>) }

\* the otp sub-maps, and what stands in the place of one
OtpValues ==
    { Absent, JInt(5) } \cup
    { JDict(Field("issuer", i) @@ Field("account", a) @@ Field("tokenType", t)
            @@ Field("digits", d) @@ Field("period", p) @@ Field("counter", c)
            @@ Field("algorithm", g)) :
        i \in OtpIssuerValues, a \in OtpAccountValues, t \in TokenTypeValues,
        d \in OtpDigitsValues, p \in OtpPeriodValues, c \in OtpCounterValues,
        g \in OtpAlgorithmValues }

\* what is not a map
NotMaps == { None, JInt(7), JStr(<<"A">>), JList(<<>>) }

\* create_from_2fas(service)
DoCreateFrom2fas ==
    /\ call = NoCall
    /\ \/ \E service \in NotMaps :
              call' = Called("create_from_2fas", [service |-> service],
                             CreateFrom2fas(service))
       \/ \E secret \in SecretValues, name \in NameValues, otp \in OtpValues :
              With(JDict(Field("secret", secret) @@ Field("name", name) @@ Field("otp", otp)),
                   LAMBDA service :
                       call' = Called("create_from_2fas", [service |-> service],
                                      CreateFrom2fas(service)))
    /\ UNCHANGED <<processorVars, entry, url, parsed>>

TypeValues ==
    { Absent, JStr(T_totp), JStr(T_hotp), JStr(S_TOTP), JStr(<<"H", "o", "t", "p">>),
      JStr(<<"s", "t", "e", "a", "m">>) }

MapIssuerValues == { Absent, JStr(<<"A">>), JStr(<<>>) }

MapSecretValues == { Absent, JStr(SecretA), JStr(<<"A", "1">>), JStr(<<>>) }

MapAccountValues == { Absent, JStr(<<"b">>) }

MapDigitsValues == { Absent, JInt(8), JInt(5), JStr(<<"8">>) }

MapPeriodValues == { Absent, JInt(60), JInt(14) }

MapCounterValues == { Absent, JInt(5), JInt(-1) }

MapAlgorithmValues == { Absent, JStr(<<"s", "h", "a", "2", "5", "6">>), JStr(<<"M", "D", "5">>) }

\* create_from_dict(data)
DoCreateFromDict ==
    /\ call = NoCall
    /\ \E type \in TypeValues, issuer \in MapIssuerValues, secret \in MapSecretValues,
          account \in MapAccountValues, digits \in MapDigitsValues,
          period \in MapPeriodValues, counter \in MapCounterValues,
          algorithm \in MapAlgorithmValues :
           With(JDict(Field("type", type) @@ Field("issuer", issuer)
                      @@ Field("secret", secret) @@ Field("account", account)
                      @@ Field("digits", digits) @@ Field("period", period)
                      @@ Field("counter", counter) @@ Field("algorithm", algorithm)),
                LAMBDA map :
                    call' = Called("create_from_dict", [data |-> map], CreateFromDict(map)))
    /\ UNCHANGED <<processorVars, entry, url, parsed>>

NextFactory ==
    \/ DoParseGivenUrl
    \/ DoCreateFrom2fas
    \/ DoCreateFromDict

SpecFactory == InitOneEntry /\ [][NextFactory]_vars

\* ------------------------------------------------------------------------
\* Properties
\* ------------------------------------------------------------------------

\* the call has ended (the factory may still have to hand the outcome on)
Ended == pc \in {"done", "factory_return"}

EndedCorrupted == Ended /\ outcome = "CorruptedBackupError"

\* C1. Round trip: whenever an entry's otpauth URI has been parsed,
\* parse_otpauth_url returned an entry equal to the one the URI came from.
RoundTripLaw == parsed # None => parsed = Ok(entry)

\* C2. A process_backup call starts with no cached password.
CallStartsWithoutCachedPassword == pc = "process_backup" => cached = None

\* C3. In one run of the decryption of a container there are at most 3
\* AES-GCM attempts with a derived key and at most 3 prompts; no prompt is
\* pending or about to be made once 3 have been made; and once 3
\* authentication failures have been counted the call has ended with
\* CorruptedBackupError.
BoundedRetry ==
    /\ tries <= 3
    /\ promptCalls <= 3
    /\ getpassCalls <= 3
    /\ pc = "prompt" => promptCalls < 3
    /\ attempts <= 3
    /\ attempts = 3 => EndedCorrupted /\ reason = "invalid password"

\* three wrong passwords were typed
BoundedRetryWitness ==
    /\ attempts = 3
    /\ tries = 3
    /\ promptCalls = 3
    /\ getpassCalls = 3
    /\ EndedCorrupted

\* the segments of the primary blob of document d
PrimarySegments(d) == BlobParts(ServicesEncrypted(d))

\* the primary blob of d has not exactly 3 segments, or a segment that is
\* not base64, or an empty ciphertext or iv
StructuralDefect(d) ==
    LET parts == PrimarySegments(d) IN
    \/ Len(parts) # 3
    \/ \E i \in DOMAIN parts : ~parts[i].ok
    \/ parts[1].raw.len = 0
    \/ parts[3].raw.len = 0

\* the primary blob of d decrypts with pw (or the embedded key) to text
\* that is not JSON
PlaintextNotJson(d, pw) ==
    LET r == DecryptEncryptedBlob(ServicesEncrypted(d), pw, KeyEncoded(d)) IN
    IsOk(r) /\ r.val = JsonInvalid

\* AES-GCM rejects the primary blob of d under pw (or the embedded key)
TagMismatch(d, pw) ==
    DecryptEncryptedBlob(ServicesEncrypted(d), pw, KeyEncoded(d)).exc = "InvalidTag"

\* C4. An attempt on a blob with a structural defect, or whose plaintext is
\* not JSON, ends the call at once with CorruptedBackupError, with the
\* failure counter and the prompt count as they were; and an attempt is
\* followed by a prompt only when the authentication tag did not match.
OnlyTagMismatchRetries ==
    [][pc = "attempt" =>
         /\ (StructuralDefect(data) \/ PlaintextNotJson(data, password)) =>
                /\ EndedCorrupted'
                /\ attempts' = attempts
                /\ promptCalls' = promptCalls
                /\ getpassCalls' = getpassCalls
         /\ pc' = "prompt" => TagMismatch(data, password)
      ]_vars

\* after one wrong password the right one was typed, and the plaintext was
\* not JSON: the call ended with one failure counted and two prompts made
OnlyTagMismatchRetriesWitness ==
    /\ EndedCorrupted
    /\ reason = "invalid json after decryption"
    /\ attempts = 1
    /\ promptCalls = 2

\* document d carries a key
HasEmbeddedKey(d) ==
    /\ d.t = "dict"
    /\ \/ Truthy(DictGet(d, "keyEncoded", None))
       \/ Truthy(DictGet(d, "key", None))

\* C5. While a container that carries a key is decrypted no prompt is made
\* or pending, and an attempt whose authentication tag does not match ends
\* the call at once with CorruptedBackupError and no failure counted.
EmbeddedKeyBypassesPassword ==
    /\ [](pc \in {"prompt", "getpass", "attempt"} /\ HasEmbeddedKey(data) =>
              pc = "attempt" /\ promptCalls = 0 /\ getpassCalls = 0)
    /\ [][pc = "attempt" /\ HasEmbeddedKey(data) /\ TagMismatch(data, password) =>
              /\ EndedCorrupted'
              /\ attempts' = attempts
              /\ promptCalls' = 0
         ]_vars

\* a container with a key that does not open its blob was processed
EmbeddedKeyBypassesPasswordWitness ==
    /\ EndedCorrupted
    /\ reason = "invalid key"
    /\ file.body.fmt = "json"
    /\ HasEmbeddedKey(file.body.data)
    /\ promptCalls = 0

\* C6. Without an interactive standard input getpass is never called, and
\* a call that asked for the password has ended with CorruptedBackupError.
FailFastWithoutTty ==
    ~tty =>
        /\ pc # "getpass"
        /\ getpassCalls = 0
        /\ promptCalls > 0 => EndedCorrupted /\ reason = "interactive only"

\* a password was required and standard input was not interactive
FailFastWithoutTtyWitness ==
    /\ ~tty
    /\ promptCalls = 1
    /\ EndedCorrupted
    /\ reason = "interactive only"

\* AES-GCM rejects the reference blob of d under pw (or the embedded key)
ReferenceMismatch(d, pw) ==
    /\ Truthy(ReferenceEncrypted(d))
    /\ DecryptEncryptedBlob(ReferenceEncrypted(d), pw, KeyEncoded(d)).exc = "InvalidTag"

\* C7. An attempt whose primary blob decrypts and parses, and whose
\* reference blob fails authentication under the same password, goes on to
\* extraction with the decrypted services: no prompt, no failure counted,
\* nothing raised.
ReferenceIsCorroboratingOnly ==
    [][/\ pc = "attempt"
       /\ IsOk(DecryptServices(data, password))
       /\ ReferenceMismatch(data, password)
       => /\ pc' = "extract"
          /\ data' = DataCopy(data, DecryptServices(data, password).val)
          /\ outcome' = "none"
          /\ attempts' = attempts
          /\ promptCalls' = promptCalls
      ]_vars

\* the services were decrypted with a typed password that the reference
\* blob rejects
ReferenceIsCorroboratingOnlyWitness ==
    /\ pc = "extract"
    /\ data.t = "dict"
    /\ DictHas(data, "reference")
    /\ ~DictHas(data, "servicesEncrypted")
    /\ password # None
    /\ KeyEncoded(data) = None
    /\ ReferenceMismatch(data, password)

\* candidate c makes an entry
Constructs(c) == IsOk(CreateFrom2fas(c))

\* the entries of the candidates that make one, in the order of the candidates
EntriesOfConstructible(candidates) ==
    LET good == SelectSeq(candidates, Constructs)
    IN  [i \in DOMAIN good |-> CreateFrom2fas(good[i]).val]

\* C8. Extraction from a document whose candidates are a list yields exactly
\* the entries of the candidates that construct, in order: they are what the
\* call returns, or what an archive member adds to the archive's entries.
PartialFailureTolerance ==
    [][pc = "extract" /\ ServicesOf(data).t = "list" =>
         IF IsZip
         THEN /\ entries' = entries \o EntriesOfConstructible(ServicesOf(data).v)
              /\ pc' = "zip_member"
         ELSE /\ outcome' = "returned"
              /\ result' = EntriesOfConstructible(ServicesOf(data).v)
      ]_vars

\* three candidates, the second without its secret: two entries
PartialFailureToleranceWitness ==
    /\ pc = "done"
    /\ outcome = "returned"
    /\ file.body = JsonBody(JDict([services |-> JList(<<SvcTotp, SvcNoSecret, SvcHotp>>)]))
    /\ Len(result) = 2
    /\ result[1].type = "totp"
    /\ result[2].type = "hotp"

\* the call ran _process_zip_backup on an archive that opened
ZipRun ==
    /\ pc = "done"
    /\ outcome # "none"
    /\ chosen = "2FAS"
    /\ file.exists
    /\ LowerSuffix(file.suffix) = ".zip"
    /\ file.body.fmt = "zip"

\* member m is JSON
Parses(m) == m.body.fmt = "json"

\* member m passes the content sniff
Passes(m) == Parses(m) /\ IsValid2fasFormat(m.body.data)

Encrypted(m) == Parses(m) /\ IsEncryptedBackup(m.body.data)

AnyPasses(members) == \E i \in DOMAIN members : Passes(members[i])

AllParse(members) == \A i \in DOMAIN members : Parses(members[i])

RECURSIVE EntriesOfPassing(_)
\* the entries of the members that pass the sniff, in member order
EntriesOfPassing(members) ==
    IF members = <<>> THEN <<>>
    ELSE (IF Passes(Head(members))
          THEN EntriesOfConstructible(ServicesOf(Head(members).body.data).v)
          ELSE <<>>)
         \o EntriesOfPassing(Tail(members))

\* C9, as the code has it. A call on an archive returns only if a *.json
\* member passes the sniff; it raises UnsupportedFormatError exactly when
\* every *.json member parses and none passes; when it returns and no
\* passing member is encrypted, the entries are those of the passing
\* members, the others adding nothing.
ZipOutcome ==
    ZipRun =>
        LET members == JsonFiles(file.body) IN
        /\ outcome = "returned" => AnyPasses(members) /\ AllParse(members)
        /\ outcome = "UnsupportedFormatError" <=> (AllParse(members) /\ ~AnyPasses(members))
        /\ (outcome = "returned" /\ \A i \in DOMAIN members : ~Encrypted(members[i]))
               => result = EntriesOfPassing(members)

\* an archive of a document with a service and an unrelated document
ZipOutcomeWitness ==
    /\ ZipRun
    /\ outcome = "returned"
    /\ Len(result) = 1
    /\ Len(JsonFiles(file.body)) = 2
    /\ ~Passes(JsonFiles(file.body)[1])
    /\ Passes(JsonFiles(file.body)[2])

\* C9, as stated: a call on an archive returns if and only if a *.json
\* member passes the sniff, and raises UnsupportedFormatError when none does.
ZipSucceedsIffAMemberPasses ==
    ZipRun =>
        /\ outcome = "returned" <=> AnyPasses(JsonFiles(file.body))
        /\ ~AnyPasses(JsonFiles(file.body)) => outcome = "UnsupportedFormatError"

\* the positions of the processors that can process f
Matching(processors, f) == {i \in DOMAIN processors : CanProcess(processors[i], f)}

\* the first of them in registration order, "None" when there is none
FirstMatching(processors, f) ==
    IF Matching(processors, f) = {} THEN "None"
    ELSE processors[CHOOSE i \in Matching(processors, f) :
                        \A j \in Matching(processors, f) : i <= j]

\* C10. In a call through the factory the processor chosen is the first of
\* the registry that can process the file; when there is none the factory
\* raises UnsupportedFormatError without calling a processor, otherwise what
\* the factory returns or raises is what the chosen processor returned or
\* raised.
RegistryDispatch ==
    via = "factory" =>
        /\ chosen = FirstMatching(registry, file)
        /\ chosen = "None" => pc \in {"factory_raise", "done"} /\ outcome = "none"
        /\ pc = "done" =>
               IF chosen = "None"
               THEN fOutcome = "UnsupportedFormatError" /\ fResult = <<>>
               ELSE fOutcome = outcome /\ fResult = result /\ outcome # "none"

\* both processors can process the file, the first one registered made the
\* entries the factory returned
RegistryDispatchWitness ==
    /\ via = "factory"
    /\ pc = "done"
    /\ registry = <<"2FAS", "Other">>
    /\ OtherCanProcess(file)
    /\ chosen = "2FAS"
    /\ fOutcome = "returned"
    /\ fResult # <<>>

\* the file of the call exists with a supported suffix and cannot be read:
\* a document that is not JSON, an archive that is not a ZIP file or that has
\* a *.json member that is not JSON
Unreadable ==
    /\ file.exists
    /\ LowerSuffix(file.suffix) \in SupportedFormats
    /\ IF IsZip
       THEN file.body.fmt # "zip" \/ ~AllParse(JsonFiles(file.body))
       ELSE ~IsOk(JsonLoad(file.body))

SHA1 == <<"S", "H", "A", "1">>

SHA256 == <<"S", "H", "A", "2", "5", "6">>

SHA512 == <<"S", "H", "A", "5", "1", "2">>

\* x is an int, or a str that int() reads, and P holds of the number
NumberWith(x, P(_)) == IsOk(PyInt(x)) /\ P(PyInt(x).val)

\* the arguments a of a constructor call satisfy every constraint: the
\* normalized secret, the sanitized issuer, the digits, the upper-cased
\* algorithm, and the period of a TOTPEntry or the counter of a HOTPEntry
ConstraintsHold(op, a) ==
    /\ IsOk(NormalizeSecret(a.secret))
    /\ Truthy(NormalizeSecret(a.secret).val)
    /\ IsValidBase32(NormalizeSecret(a.secret).val.v)
    /\ IsOk(SanitizeString(a.issuer))
    /\ Truthy(SanitizeString(a.issuer).val)
    /\ NumberWith(a.digits, LAMBDA d : d \in {6, 7, 8})
    /\ IsOk(PyUpper(a.algorithm))
    /\ PyUpper(a.algorithm).val \in {SHA1, SHA256, SHA512}
    /\ IF op = "TOTPEntry"
       THEN NumberWith(a.period, LAMBDA p : 15 <= p /\ p <= 300)
       ELSE NumberWith(a.counter, LAMBDA c : c >= 0)

\* the state of entry e is valid
ValidEntry(e) ==
    /\ e.secret # <<>>
    /\ IsValidBase32(e.secret)
    /\ e.issuer # <<>>
    /\ e.digits \in {6, 7, 8}
    /\ e.algorithm \in {SHA1, SHA256, SHA512}
    /\ IF e.type = "totp" THEN 15 <= e.period /\ e.period <= 300 ELSE e.counter >= 0

IsConstruction == call.op \in {"TOTPEntry", "HOTPEntry"}

\* C12. A constructor call returns an object if and only if its arguments
\* satisfy every constraint (period 15 and 300 and counter 0 included, 14,
\* 301 and -1 excluded), it leaves no object when it raises, and every
\* entry there is is in a valid state.
ConstructionIffConstraints ==
    /\ IsConstruction =>
           /\ IsOk(call.ret) <=> ConstraintsHold(call.op, call.args)
           /\ entry = IF IsOk(call.ret) THEN call.ret.val ELSE None
    /\ entry # None => ValidEntry(entry)

\* a TOTPEntry with period 15 was made
ConstructionIffConstraintsWitness ==
    /\ call.op = "TOTPEntry"
    /\ call.args.period = JInt(15)
    /\ IsOk(call.ret)
    /\ entry.period = 15

\* the text of URI u between "otpauth://" and the first "/" after it
UriType(u) ==
    With(SubSeq(u, Len(OtpauthPrefix) + 1, Len(u)), LAMBDA rest :
        SubSeq(rest, 1, Find(rest, "/") - 1))

\* the text of URI u between that "/" and the first "?"
UriLabel(u) ==
    With(SubSeq(u, Len(OtpauthPrefix) + 1, Len(u)), LAMBDA rest :
        SubSeq(rest, Find(rest, "/") + 1, Find(rest, "?") - 1))

\* the fields of URI u after its first "?", cut at each "&"
UriFields(u) == SplitOn(SubSeq(u, Find(u, "?") + 1, Len(u)), "&")

\* the values that URI u gives to the parameter name
UriValues(u, name) ==
    { SubSeq(f, Len(name) + 2, Len(f)) :
          f \in {g \in Range(UriFields(u)) : StartsWith(g, name \o <<"=">>)} }

\* C13. The otpauth URI of an entry is otpauth://, totp or hotp, "/", a
\* label, "?" and parameters; secret, issuer, digits and algorithm are
\* always among them; period is among them exactly for a TOTP entry whose
\* period is not 30; counter is among them exactly for a HOTP entry, with the
\* counter the entry has when the URI is read.
UriParameterSet ==
    url # NoUrl =>
        /\ StartsWith(url, OtpauthPrefix)
        /\ Find(url, "?") > 0
        /\ UriType(url) = (IF entry.type = "totp" THEN T_totp ELSE T_hotp)
        /\ UriLabel(url) = Quote(GenerateLabel(entry))
        /\ UriValues(url, K_secret) = {Quote(entry.secret)}
        /\ UriValues(url, K_issuer) = {Quote(entry.issuer)}
        /\ UriValues(url, K_digits) = {IntToStr(entry.digits)}
        /\ UriValues(url, K_algorithm) = {entry.algorithm}
        /\ UriValues(url, K_period) =
               (IF entry.type = "totp" /\ entry.period # 30
                THEN {IntToStr(entry.period)} ELSE {})
        /\ UriValues(url, K_counter) =
               (IF entry.type = "hotp" THEN {IntToStr(entry.counter)} ELSE {})

\* the URI of a HOTP entry whose counter was incremented to 4
UriParameterSetWitness ==
    /\ url # NoUrl
    /\ entry.type = "hotp"
    /\ entry.counter = 4
    /\ UriValues(url, K_counter) = {<<"4">>}

IsUriParse == call.op = "parse_otpauth_url"

\* the text of URI u between "://" and the first "/", "?" or "#" after it
UriAuthority(u) ==
    With(SubSeq(u, Find(u, ":") + 3, Len(u)), LAMBDA rest :
        SubSeq(rest, 1, FindAny(rest, {"/", "?", "#"}) - 1))

\* the query of URI u gives no secret, or an empty one
UriWithoutSecret(u) == UriValues(u, K_secret) \subseteq {<<>>}

\* the value that URI u gives to the numeric parameter name is not a number
UriNotNumeric(u, name) ==
    \E v \in UriValues(u, name) : ~IsOk(StrToInt(v))

\* the numeric parameters the type of URI u reads
UriNumericParams(u) ==
    IF Lower(UriAuthority(u)) = T_hotp THEN {K_digits, K_counter} ELSE {K_digits, K_period}

\* URI u has the scheme, a type, a label with an issuer or an issuer
\* parameter, and a secret
UriComplete(u) ==
    /\ StartsWith(u, OtpauthPrefix)
    /\ Lower(UriAuthority(u)) \in {T_totp, T_hotp}
    /\ ~UriWithoutSecret(u)
    /\ LStripSet(UriLabel(u), {"/"}) # <<>>
    /\ \/ UriValues(u, K_issuer) \ {<<>>} # {}
       \/ Head(LStripSet(UriLabel(u), {"/"})) # ":"

\* C14, as stated. parse_otpauth_url raises ParseError for a URI that does
\* not start with otpauth://, for one whose authority is neither totp nor
\* hotp, for one without a secret, and for an otherwise complete one with a
\* numeric parameter that is not a number.
UriErrorKinds ==
    IsUriParse =>
        With(call.args.url, LAMBDA u :
            /\ ~StartsWith(u, OtpauthPrefix) => call.ret.exc = "ParseError"
            /\ Lower(UriAuthority(u)) \notin {T_totp, T_hotp} => call.ret.exc = "ParseError"
            /\ UriWithoutSecret(u) => call.ret.exc = "ParseError"
            /\ (UriComplete(u) /\ \E name \in UriNumericParams(u) : UriNotNumeric(u, name))
                   => call.ret.exc = "ParseError")

\* C14, as the code has it: the URI without the scheme and the complete URI
\* with a parameter that is not a number raise ParseError; the URI with
\* another authority or without a secret raises a plain OTPError.
UriErrorKindsOfCode ==
    IsUriParse =>
        With(call.args.url, LAMBDA u :
            /\ ~StartsWith(u, OtpauthPrefix) => call.ret.exc = "ParseError"
            /\ (StartsWith(u, OtpauthPrefix)
                   /\ (Lower(UriAuthority(u)) \notin {T_totp, T_hotp} \/ UriWithoutSecret(u)))
                   => call.ret.exc = "OTPError"
            /\ (UriComplete(u) /\ \E name \in UriNumericParams(u) : UriNotNumeric(u, name))
                   => call.ret.exc = "ParseError")

\* a URI of another authority was refused with a plain OTPError
UriErrorKindsOfCodeWitness ==
    /\ IsUriParse
    /\ StartsWith(call.args.url, OtpauthPrefix)
    /\ UriAuthority(call.args.url) = <<"x">>
    /\ call.ret.exc = "OTPError"

\* ------------------------------------------------------------------------
\* create_from_2fas on its own
\* ------------------------------------------------------------------------

IsCreate2fas == call.op = "create_from_2fas"

\* the service has a secret and a name
HasSecretAndName(service) ==
    /\ service.t = "dict"
    /\ DictHas(service, "secret") /\ Truthy(service.v["secret"])
    /\ DictHas(service, "name") /\ Truthy(service.v["name"])

\* the otp sub-map of a service, empty when there is none
OtpMap(service) ==
    IF DictHas(service, "otp") /\ service.v["otp"].t = "dict"
    THEN service.v["otp"] ELSE EmptyDict

NumericNames == {"digits", "period", "counter"}

\* a number, or the text of one
IsNumeric(x) == x.t = "int" \/ (x.t = "str" /\ IsOk(StrToInt(x.v)))

\* the number a numeric text stands for
AsNumber(x) == IF x.t = "str" /\ IsOk(StrToInt(x.v)) THEN JInt(StrToInt(x.v).val) ELSE x

\* the service with its numeric texts replaced by their numbers
Numbered(service) ==
    IF ~DictHas(service, "otp") \/ service.v["otp"].t # "dict" THEN service
    ELSE With(service.v["otp"].v, LAMBDA otp :
             JDict([service.v EXCEPT !["otp"] =
                 JDict([k \in DOMAIN otp |->
                     IF k \in NumericNames THEN AsNumber(otp[k]) ELSE otp[k]])]))

\* the service asks for a HOTP entry
AsksHotp(service) ==
    With(OtpMap(service), LAMBDA otp :
        /\ DictHas(otp, "tokenType")
        /\ otp.v["tokenType"].t = "str"
        /\ Upper(otp.v["tokenType"].v) = S_HOTP)

\* the numeric fields the entry of the service is made of
NumericNamesUsed(service) ==
    {"digits"} \cup (IF AsksHotp(service) THEN {"counter"} ELSE {"period"})

NotNumericIn(service, names) ==
    With(OtpMap(service), LAMBDA otp :
        \E k \in names : DictHas(otp, k) /\ ~IsNumeric(otp.v[k]))

\* C15, as stated: create_from_2fas gives the same result for a numeric text
\* as for its number in digits, period and counter, and fails with ParseError
\* when one of them, among those the entry is made of, is not numeric.
NumericFields2fas ==
    (IsCreate2fas /\ HasSecretAndName(call.args.service)) =>
        With(call.args.service, LAMBDA service :
            /\ call.ret = CreateFrom2fas(Numbered(service))
            /\ NotNumericIn(service, NumericNamesUsed(service))
                   => call.ret.exc = "ParseError")

\* C15, as the code has it: digits is converted before the try block, and a
\* digits that is not numeric ends the call with the ValueError or TypeError
\* of int(); a period or counter that is not numeric gives ParseError.
NumericFields2fasOfCode ==
    (IsCreate2fas /\ HasSecretAndName(call.args.service)) =>
        With(call.args.service, LAMBDA service :
            /\ call.ret = CreateFrom2fas(Numbered(service))
            /\ NotNumericIn(service, {"digits"})
                   => call.ret.exc \in {"ValueError", "TypeError"}
            /\ (~NotNumericIn(service, {"digits"})
                   /\ NotNumericIn(service, NumericNamesUsed(service)))
                   => call.ret.exc = "ParseError")

\* a service whose digits is the text "x", otherwise complete, was refused
\* with ValueError
NumericFields2fasOfCodeWitness ==
    /\ IsCreate2fas
    /\ HasSecretAndName(call.args.service)
    /\ DictHas(OtpMap(call.args.service), "digits")
    /\ OtpMap(call.args.service).v["digits"] = JStr(<<"x">>)
    /\ DOMAIN OtpMap(call.args.service).v = {"digits"}
    /\ call.ret.exc = "ValueError"

\* a service with period "60" gave the entry of period 60
NumericTextAccepted ==
    /\ IsCreate2fas
    /\ HasSecretAndName(call.args.service)
    /\ DOMAIN OtpMap(call.args.service).v = {"period"}
    /\ OtpMap(call.args.service).v["period"] = JStr(<<"6", "0">>)
    /\ IsOk(call.ret)
    /\ call.ret.val.period = 60

\* the service lacks what create_from_2fas cannot do without
LacksMandatory(service) ==
    \/ service.t # "dict"
    \/ ~DictHas(service, "secret")
    \/ ~Truthy(service.v["secret"])
    \/ ~DictHas(service, "name")
    \/ ~Truthy(service.v["name"])

\* C16: create_from_2fas fails with ParseError when the service is not a map,
\* or has no secret or an empty one, or has no name or an empty one, whatever
\* its otp sub-map holds.
MandatoryFields2fas ==
    (IsCreate2fas /\ LacksMandatory(call.args.service)) => call.ret.exc = "ParseError"

\* a service without a name, whose otp sub-map has an issuer, was refused
\* with ParseError
MandatoryFields2fasWitness ==
    /\ IsCreate2fas
    /\ call.args.service.t = "dict"
    /\ DictHas(call.args.service, "secret")
    /\ Truthy(call.args.service.v["secret"])
    /\ ~DictHas(call.args.service, "name")
    /\ DictHas(OtpMap(call.args.service), "issuer")
    /\ Truthy(OtpMap(call.args.service).v["issuer"])
    /\ call.ret.exc = "ParseError"

\* what x.upper() is, for a text
UpperOf(x) == IF x.t = "str" THEN Upper(x.v) ELSE <<>>

\* the value of the field, or the default of an absent one
FieldOr(otp, k, default) == IF DictHas(otp, k) THEN otp.v[k] ELSE default

\* C17: with a secret and a name, the entry create_from_2fas returns has the
\* issuer of otp.issuer, or the name when there is none; it is a HOTP entry when
\* tokenType is HOTP in any case and a TOTP entry when there is no tokenType
\* or no otp map; digits, period, counter and algorithm are 6, 30, 0 and SHA1
\* when absent.  Without an otp map the call returns.
Defaults2fas ==
    (IsCreate2fas /\ HasSecretAndName(call.args.service)) =>
        With(call.args.service, LAMBDA service :
        With(OtpMap(service), LAMBDA otp :
            /\ DOMAIN otp.v = {} => IsOk(call.ret)
            /\ IsOk(call.ret) =>
                With(call.ret.val, LAMBDA e :
                    /\ e.issuer = Strip(FieldOr(otp, "issuer", service.v["name"]).v)
                    /\ UpperOf(FieldOr(otp, "tokenType", None)) = S_HOTP
                           => e.type = "hotp"
                    /\ ~DictHas(otp, "tokenType") => e.type = "totp"
                    /\ ~DictHas(otp, "digits") => e.digits = 6
                    /\ ~DictHas(otp, "algorithm") => e.algorithm = SHA1
                    /\ (e.type = "totp" /\ ~DictHas(otp, "period")) => e.period = 30
                    /\ (e.type = "hotp" /\ ~DictHas(otp, "counter")) => e.counter = 0)))

\* a service with tokenType "hotp" and nothing else in its otp map gave a
\* HOTP entry with the name as issuer, 6 digits, counter 0 and SHA1
Defaults2fasWitness ==
    /\ IsCreate2fas
    /\ HasSecretAndName(call.args.service)
    /\ DOMAIN OtpMap(call.args.service).v = {"tokenType"}
    /\ OtpMap(call.args.service).v["tokenType"] = JStr(T_hotp)
    /\ IsOk(call.ret)
    /\ call.ret.val.type = "hotp"
    /\ call.ret.val.issuer = call.args.service.v["name"].v
    /\ call.ret.val.counter = 0

\* ------------------------------------------------------------------------
\* The issuer and the account that parse_otpauth_url reads
\* ------------------------------------------------------------------------

\* the values, decoded and not empty, that URI u gives to the parameter name
UriDecodedValues(u, name) ==
    { Unquote(ReplaceChar(v, "+", " ")) : v \in UriValues(u, name) } \ {<<>>}

\* the issuer as an entry stores it
StoredIssuer(issuer) == ReplaceChar(Strip(issuer), ":", "-")

\* the account as an entry stores it
StoredAccount(account) ==
    IF account = None \/ account.v = <<>> THEN None
    ELSE JStr(ReplaceChar(Strip(account.v), ":", "-"))

\* the issuer that belongs to the label and the issuer parameters
IssuerOf(label, colon, qissuers) ==
    IF qissuers # {} THEN CHOOSE v \in qissuers : TRUE
    ELSE IF colon > 0 THEN SubSeq(label, 1, colon - 1)
    ELSE label

\* the account that belongs to the label
AccountOf(label, colon) ==
    IF colon > 0 THEN JStr(SubSeq(label, colon + 1, Len(label))) ELSE None

\* entry e has the issuer and the account that belong to the label and to URI u
ReadsLabel(e, u, label) ==
    /\ e.issuer = StoredIssuer(IssuerOf(label, Find(label, ":"), UriDecodedValues(u, K_issuer)))
    /\ e.account = StoredAccount(AccountOf(label, Find(label, ":")))

\* C18, as stated: the label is the decoded path without its leading slash;
\* the entry parse_otpauth_url returns has the issuer parameter as issuer, or
\* without one the label up to its first ":" (the whole label without ":"),
\* and as account the label after its first ":" (none without ":").
LabelIssuerAccount ==
    (IsUriParse /\ IsOk(call.ret)) =>
        ReadsLabel(call.ret.val, call.args.url, Unquote(UriLabel(call.args.url)))

\* C18, as the code has it: the label is the decoded path without all its
\* leading slashes.
LabelIssuerAccountOfCode ==
    (IsUriParse /\ IsOk(call.ret)) =>
        ReadsLabel(call.ret.val, call.args.url,
                   Unquote(LStripSet(UriLabel(call.args.url), {"/"})))

\* the URI of path //A%20b gave an entry of issuer "A b"
LabelIssuerAccountOfCodeWitness ==
    /\ IsUriParse
    /\ IsOk(call.ret)
    /\ UriLabel(call.args.url) = <<"/", "A", "%", "2", "0", "b">>
    /\ UriValues(call.args.url, K_issuer) \subseteq {<<>>}
    /\ call.ret.val.issuer = <<"A", " ", "b">>

\* the URI of label A%3Ab:c with issuer=I gave an entry of issuer I and
\* account b-c
QueryIssuerPrecedes ==
    /\ IsUriParse
    /\ IsOk(call.ret)
    /\ UriLabel(call.args.url) = <<"A", "%", "3", "A", "b", ":", "c">>
    /\ UriValues(call.args.url, K_issuer) = {<<"I">>}
    /\ call.ret.val.issuer = <<"I">>
    /\ call.ret.val.account = JStr(<<"b", "-", "c">>)

\* ------------------------------------------------------------------------
\* create_from_dict
\* ------------------------------------------------------------------------

IsCreateFromDict == call.op = "create_from_dict"

\* the type that data asks for, in lower case
TypeAsked(map) == Lower(FieldOr(map, "type", JStr(T_totp)).v)

\* the entry made of the fields of data, a missing field taking its default
EntryOfMap(map) ==
    IF TypeAsked(map) = T_totp
    THEN TOTPEntry(map.v["issuer"], map.v["secret"], FieldOr(map, "account", None),
                   FieldOr(map, "digits", JInt(6)), FieldOr(map, "period", JInt(30)),
                   FieldOr(map, "algorithm", JStr(SHA1)))
    ELSE HOTPEntry(map.v["issuer"], map.v["secret"], FieldOr(map, "account", None),
                   FieldOr(map, "digits", JInt(6)), FieldOr(map, "counter", JInt(0)),
                   FieldOr(map, "algorithm", JStr(SHA1)))

\* C19: on a map with an issuer and a secret, create_from_dict ends as the
\* constructor does: TOTPEntry when type is absent or totp, HOTPEntry when it is
\* hotp, in any case of the letters, with 6, 30, 0 and SHA1 for the missing
\* digits, period, counter and algorithm; the constructor's failure leaves
\* the call with its own kind. Any other type ends with ParseError.
FromStructuredMap ==
    (IsCreateFromDict /\ DictHas(call.args.data, "issuer") /\ DictHas(call.args.data, "secret")) =>
        With(call.args.data, LAMBDA map :
            IF TypeAsked(map) \in {T_totp, T_hotp}
            THEN /\ call.ret = EntryOfMap(map)
                 /\ IsOk(call.ret) => call.ret.val.type = (IF TypeAsked(map) = T_totp
                                                           THEN "totp" ELSE "hotp")
                 /\ ~IsOk(call.ret) => call.ret.exc \in {"InvalidSecretError",
                                                         "InvalidParameterError"}
            ELSE call.ret.exc = "ParseError")

\* a map of type Hotp whose secret is not base32 was refused with the
\* constructor's InvalidSecretError
FromStructuredMapWitness ==
    /\ IsCreateFromDict
    /\ DictHas(call.args.data, "issuer")
    /\ DictHas(call.args.data, "secret")
    /\ call.args.data.v["secret"] = JStr(<<"A", "1">>)
    /\ Truthy(call.args.data.v["issuer"])
    /\ TypeAsked(call.args.data) = T_hotp
    /\ call.ret.exc = "InvalidSecretError"

\* ------------------------------------------------------------------------
\* The HOTP counter
\* ------------------------------------------------------------------------
IsIncrement == call.op = "increment_counter"

\* C20: increment_counter(n) with n >= 1 leaves the entry with its counter
\* n higher and nothing else changed, and returns that counter; with n < 1 it
\* raises InvalidParameterError and leaves the entry as it was.
IncrementLaw ==
    IsIncrement =>
        IF call.args.steps >= 1
        THEN /\ IsOk(call.ret)
             /\ call.ret.val = call.args.self.counter + call.args.steps
             /\ entry.counter = call.args.self.counter + call.args.steps
             /\ entry = [call.args.self EXCEPT !.counter = entry.counter]
        ELSE /\ call.ret.exc = "InvalidParameterError"
             /\ entry = call.args.self

\* increment_counter(5) on a counter of 0 returned 5
IncrementLawWitness ==
    /\ IsIncrement
    /\ call.args.self.counter = 0
    /\ call.args.steps = 5
    /\ call.ret = Ok(5)
    /\ entry.counter = 5

\* increment_counter(0) was refused and the counter is as it was
IncrementRefused ==
    /\ IsIncrement
    /\ call.args.steps = 0
    /\ call.ret.exc = "InvalidParameterError"
    /\ entry.counter = call.args.self.counter

\* ------------------------------------------------------------------------
\* The order of the entries returned
\* ------------------------------------------------------------------------

\* the 2FAS processor's process_backup has returned a list
Returned2fas == pc = "done" /\ chosen = "2FAS" /\ outcome = "returned"

\* the text that the primary blob of encrypted document d was sealed from
SealedText(d) == ServicesEncrypted(d).parts[1].raw.plain.text

\* document d as it is once decrypted
Decrypted(d) == IF IsEncryptedBackup(d) THEN DataCopy(d, SealedText(d)) ELSE d

\* the candidates of document d, in the order of the document
CandidatesOf(d) == Iterate(ServicesOf(Decrypted(d))).val

\* the entries of document d: those of its candidates that make one, in the
\* order of the candidates
EntriesOfDocument(d) == EntriesOfConstructible(CandidatesOf(d))

RECURSIVE EntriesOfMembers(_)
\* the entries of the members that pass the sniff, member after member
EntriesOfMembers(members) ==
    IF members = <<>> THEN <<>>
    ELSE (IF Passes(Head(members)) THEN EntriesOfDocument(Head(members).body.data)
          ELSE <<>>)
         \o EntriesOfMembers(Tail(members))

\* C21. The list process_backup returns keeps the order of the document: for
\* a JSON document it is the entries of its candidates in the order of the
\* candidates, the skipped ones left out; for an archive it is the lists of
\* its members one after the other, in the order of the members.
OutputOrder ==
    Returned2fas =>
        IF IsZip THEN result = EntriesOfMembers(JsonFiles(file.body))
        ELSE result = EntriesOfDocument(file.body.data)

\* an archive of an encrypted document and a plain one: the three entries of
\* the first (HOTP, TOTP; the candidate without a secret skipped), then the
\* entry of the second
OutputOrderWitness ==
    /\ Returned2fas
    /\ IsZip
    /\ Len(JsonFiles(file.body)) = 2
    /\ Encrypted(JsonFiles(file.body)[1])
    /\ ~Encrypted(JsonFiles(file.body)[2])
    /\ Len(result) = 3
    /\ result[1].type = "hotp"
    /\ result[1].issuer = <<"B">>
    /\ result[2].issuer = <<"A">>
    /\ result[3].issuer = <<"A">>

\* ------------------------------------------------------------------------
\* Documents that are not encrypted
\* ------------------------------------------------------------------------

\* document d has no servicesEncrypted field
WithoutServicesEncrypted(d) == d.t # "dict" \/ ~DictHas(d, "servicesEncrypted")

\* C22. _decrypt_backup_if_needed on a document without a servicesEncrypted
\* field returns the document as it is: extraction is next, on the same
\* document; no prompt, no getpass, no decryption attempt; the cached
\* password and the local password stay as they are and nothing is raised.
PlainPassThrough ==
    [][(pc = "decrypt" /\ WithoutServicesEncrypted(data)) =>
           /\ pc' = "extract"
           /\ data' = data
           /\ cached' = cached
           /\ password' = password
           /\ promptCalls' = promptCalls
           /\ getpassCalls' = getpassCalls
           /\ tries' = tries
           /\ attempts' = attempts
           /\ outcome' = "none"
           /\ handles' = handles
      ]_vars

\* a plain document goes to extraction as it is in a processor that has a
\* cached password from an earlier call
PlainPassThroughWitness ==
    /\ pc = "extract"
    /\ ~IsZip
    /\ data = file.body.data
    /\ data.t = "dict"
    /\ ~DictHas(data, "servicesEncrypted")
    /\ cached = PwP
    /\ password = None
    /\ promptCalls = 0
    /\ tries = 0

\* ------------------------------------------------------------------------
\* The embedded key
\* ------------------------------------------------------------------------

\* document d carries a key that is a text and not empty
HasKeyText(d) == d.t = "dict" /\ Truthy(KeyEncoded(d)) /\ KeyEncoded(d).t = "str"

\* the key text k is base64 of 16, 24 or 32 bytes
KeyOfAesLength(k) == k.seg.ok /\ k.seg.raw.len \in {16, 24, 32}

\* the messages of the exceptions raised before AESGCM(key).decrypt is called:
\* those of _split_encrypted_blob and of _resolve_key
RaisedBeforeDecrypt ==
    {"blob structure", "blob base64", "blob data or iv missing", "key encoding", "key length"}

\* C23. An attempt on a container whose embedded key is not base64, or not
\* of 16, 24 or 32 bytes, ends the call with the CorruptedBackupError of
\* _resolve_key (or of the blob's split before it), raised before AES-GCM is
\* called, without a prompt; an attempt with an embedded key that goes on to
\* extraction had a key of 16, 24 or 32 bytes.
EmbeddedKeyLength ==
    [][(pc = "attempt" /\ HasKeyText(data)) =>
           /\ ~KeyOfAesLength(KeyEncoded(data)) =>
                  /\ pc' \in {"done", "factory_return"}
                  /\ outcome' = "CorruptedBackupError"
                  /\ reason' \in RaisedBeforeDecrypt
                  /\ promptCalls' = 0
                  /\ getpassCalls' = 0
                  /\ tries' = 0
           /\ pc' = "extract" => KeyOfAesLength(KeyEncoded(data))
      ]_vars

\* a container whose blob is well formed and whose key has 20 bytes ended
\* with the CorruptedBackupError of the length test, without a prompt
EmbeddedKeyLengthWitness ==
    /\ Ended
    /\ outcome = "CorruptedBackupError"
    /\ reason = "key length"
    /\ file.body.fmt = "json"
    /\ HasKeyText(file.body.data)
    /\ KeyEncoded(file.body.data) = JB64(B64(RawK20))
    /\ IsOk(SplitEncryptedBlob(ServicesEncrypted(file.body.data)))
    /\ promptCalls = 0

\* ------------------------------------------------------------------------
\* The order of validation
\* ------------------------------------------------------------------------

\* the fields in the order they are validated in
ValidationSequence(op) ==
    <<"empty", "base32", "issuer", "digits", "algorithm">>
    \o (IF op = "TOTPEntry" THEN <<"period">> ELSE <<"counter">>)

\* the field named f is violated by the arguments a of a constructor call
Violated(f, a) ==
    CASE f = "empty"     -> ~Truthy(NormalizeSecret(a.secret).val)
      [] f = "base32"    -> ~IsValidBase32(NormalizeSecret(a.secret).val.v)
      [] f = "issuer"    -> ~Truthy(SanitizeString(a.issuer).val)
      [] f = "digits"    -> PyInt(a.digits).val \notin {6, 7, 8}
      [] f = "algorithm" -> PyUpper(a.algorithm).val \notin {SHA1, SHA256, SHA512}
      [] f = "period"    -> PyInt(a.period).val < 15 \/ PyInt(a.period).val > 300
      [] f = "counter"   -> PyInt(a.counter).val < 0

\* the violated fields, in the order of validation
ViolatedFields(op, a) == SelectSeq(ValidationSequence(op), LAMBDA f : Violated(f, a))

\* the class of the error that names field f
ErrorClassOf(f) ==
    IF f \in {"empty", "base32"} THEN "InvalidSecretError" ELSE "InvalidParameterError"

\* C24. A constructor call with invalid fields fails with the error of the
\* first of them in the order empty secret, secret not base32, empty issuer,
\* digits, algorithm, then period (TOTP) or counter (HOTP).
ValidationOrder ==
    IsConstruction =>
        With(ViolatedFields(call.op, call.args), LAMBDA bad :
            IF bad = <<>> THEN IsOk(call.ret)
            ELSE /\ call.ret.exc = ErrorClassOf(Head(bad))
                 /\ call.ret.why = Head(bad))

\* an empty secret with an empty issuer and period 14 was reported as an
\* invalid secret
ValidationOrderWitness ==
    /\ call.op = "TOTPEntry"
    /\ call.args.secret = JStr(<<>>)
    /\ call.args.issuer = JStr(<<>>)
    /\ call.args.period = JInt(14)
    /\ call.ret.exc = "InvalidSecretError"
    /\ call.ret.why = "empty"

\* digits 5 with period 14 was reported as digits
DigitsBeforePeriod ==
    /\ call.op = "TOTPEntry"
    /\ call.args.digits = JInt(5)
    /\ call.args.period = JInt(14)
    /\ call.ret.exc = "InvalidParameterError"
    /\ call.ret.why = "digits"

IsCounterCall == call.op \in {"increment_counter", "sync_counter", "reset_counter"}

\* the counter call was given a value that it refuses
RefusedArgument ==
    \/ call.op = "increment_counter" /\ call.args.steps < 1
    \/ call.op = "sync_counter" /\ call.args.new_value < 0

\* C25. The counter of a HOTP entry is an integer >= 0 in every state; a
\* counter call changes no field but the counter, and not the label; a call
\* that is refused (steps < 1, a negative value) raises and leaves the entry
\* as it was, and no other call is refused.
CounterInvariant ==
    /\ (entry # None /\ entry.type = "hotp") => entry.counter \in Nat
    /\ IsCounterCall =>
           /\ entry = [call.args.self EXCEPT !.counter = entry.counter]
           /\ GenerateLabel(entry) = GenerateLabel(call.args.self)
           /\ ~IsOk(call.ret) <=> RefusedArgument
           /\ ~IsOk(call.ret) => entry = call.args.self

\* sync_counter(-1) on an entry whose counter had been brought to 2 was
\* refused and the counter is still 2
CounterInvariantWitness ==
    /\ call.op = "sync_counter"
    /\ call.args.new_value = -1
    /\ call.ret.exc = "InvalidParameterError"
    /\ call.args.self.counter = 2
    /\ entry.counter = 2
    /\ entry = call.args.self

\* ------------------------------------------------------------------------
\* File and archive handles
\* ------------------------------------------------------------------------

\* the call is inside _decrypt_backup_if_needed or _extract_entries_from_data
InDocument == pc \in {"decrypt", "prompt", "getpass", "attempt", "extract"}

\* C26. When process_backup has returned or raised, whatever the way, no
\* file, archive or member handle is open, and none is open between calls or
\* while the factory chooses a processor; the file of a JSON document is
\* closed before the document is decrypted; an archive member is open only
\* inside its archive, while the member is processed.
ScopedHandles ==
    /\ Ended => handles = {}
    /\ pc \in {"idle", "process_backup", "factory_raise", "other_process_backup"}
           => handles = {}
    /\ ~IsZip => handles = {}
    /\ handles \in {{}, {"zip"}, {"zip", "member"}}
    /\ "member" \in handles <=> (IsZip /\ InDocument)

\* the prompt for the second member of an archive was cancelled, after the
\* first member had given its entry: the call has ended and nothing is open
ScopedHandlesWitness ==
    /\ Ended
    /\ IsZip
    /\ outcome = "CorruptedBackupError"
    /\ reason = "cancelled"
    /\ Len(JsonFiles(file.body)) = 2
    /\ Passes(JsonFiles(file.body)[1])
    /\ Encrypted(JsonFiles(file.body)[2])
    /\ handles = {}

\* ------------------------------------------------------------------------
\* Sanitization
\* ------------------------------------------------------------------------

\* text s has no whitespace at either end and no ":"
Sanitized(s) ==
    /\ s = <<>> \/ (Head(s) \notin Whitespace /\ s[Len(s)] \notin Whitespace)
    /\ ":" \notin Range(s)

\* the positions of ":" in text s
Colons(s) == {i \in DOMAIN s : s[i] = ":"}

\* C27. In every entry the issuer and the account have no whitespace at
\* either end and no ":", the label has ":" only between issuer and account,
\* the secret is in upper case without spaces and hyphens, and sanitizing
\* the stored issuer, account or secret again changes nothing; the stored
\* issuer and account are the arguments stripped, each ":" replaced by "-".
SanitizationInvariant ==
    /\ entry # None =>
           /\ Sanitized(entry.issuer)
           /\ entry.account # None => Sanitized(entry.account.v)
           /\ Colons(GenerateLabel(entry)) =
                  (IF Truthy(entry.account) THEN {Len(entry.issuer) + 1} ELSE {})
           /\ entry.secret = Upper(entry.secret)
           /\ Range(entry.secret) \cap {" ", "-"} = {}
           /\ SanitizeString(JStr(entry.issuer)) = Ok(JStr(entry.issuer))
           /\ entry.account # None => SanitizeString(entry.account) = Ok(entry.account)
           /\ NormalizeSecret(JStr(entry.secret)) = Ok(JStr(entry.secret))
    /\ (IsConstruction /\ IsOk(call.ret)) =>
           /\ Len(entry.issuer) = Len(Strip(call.args.issuer.v))
           /\ \A i \in DOMAIN entry.issuer :
                  entry.issuer[i] = (IF Strip(call.args.issuer.v)[i] = ":" THEN "-"
                                     ELSE Strip(call.args.issuer.v)[i])

\* an entry made of the issuer "A:%", the account "a:b" and the secret
\* "jb sw-y3dp" has the issuer "A-%", the account "a-b" and the secret JBSWY3DP
SanitizationInvariantWitness ==
    /\ IsConstruction
    /\ IsOk(call.ret)
    /\ call.args.issuer = JStr(<<"A", ":", "%">>)
    /\ call.args.account = JStr(<<"a", ":", "b">>)
    /\ call.args.secret = JStr(<<"j", "b", " ", "s", "w", "-", "y", "3", "d", "p">>)
    /\ entry.issuer = <<"A", "-", "%">>
    /\ entry.account = JStr(<<"a", "-", "b">>)
    /\ entry.secret = SecretA

\* ------------------------------------------------------------------------
\* Writes of the cached password
\* ------------------------------------------------------------------------

\* the primary blob of d opens under the key derived from pw, and its
\* plaintext is JSON
Authenticates(d, pw) ==
    /\ DerivedKeyAttempt(d, pw)
    /\ With(DecryptEncryptedBlob(ServicesEncrypted(d), pw, KeyEncoded(d)),
            LAMBDA text : IsOk(text) /\ IsOk(JsonLoads(text.val)))

\* C28. The cached password changes only in the step by which
\* _decrypt_backup_if_needed returns: the container carries no key, and the
\* new value is the password that has just opened the primary blob under a
\* derived key, with a plaintext that is JSON; and every such return sets it.
\* An attempt on a container with a key, an attempt that fails, and every
\* step by which the decryption raises leave it as it was.
PasswordCacheWrites ==
    [][/\ cached' # cached =>
              /\ pc = "attempt"
              /\ pc' = "extract"
              /\ outcome' = "none"
              /\ ~HasEmbeddedKey(data)
              /\ KeyEncoded(data) = None
              /\ cached' = password
              /\ Authenticates(data, password)
       /\ (pc = "attempt" /\ pc' = "extract" /\ ~HasEmbeddedKey(data)) =>
              cached' = password
       /\ (pc = "attempt" /\ ~Authenticates(data, password)) => cached' = cached
       /\ (pc \in {"decrypt", "prompt", "getpass", "attempt"} /\ pc' # "extract") =>
              cached' = cached
       /\ (EndedCorrupted' /\ ~EndedCorrupted) => cached' = cached
      ]_vars

\* after one password that failed, "q" was typed and opened the container:
\* it is the cached password, and extraction is next
PasswordCacheWritesWitness ==
    /\ pc = "extract"
    /\ ~IsZip
    /\ attempts = 1
    /\ promptCalls = 2
    /\ password = PwQ
    /\ cached = PwQ
    /\ outcome = "none"

\* a call on a container without key ended with CorruptedBackupError after
\* three failures, and no password is cached
ExhaustionLeavesCacheEmpty ==
    /\ EndedCorrupted
    /\ reason = "invalid password"
    /\ attempts = 3
    /\ cached = None

\* ------------------------------------------------------------------------
\* Archives: all or nothing
\* ------------------------------------------------------------------------

\* a member of the archive is being read, decrypted or extracted
InArchive == IsZip /\ (pc = "zip_member" \/ InDocument)

\* the attempt on document d with password pw and n failures so far raises
AttemptFails(d, pw, n) ==
    \/ StructuralDefect(d)
    \/ PlaintextNotJson(d, pw)
    \/ TagMismatch(d, pw) /\ (HasEmbeddedKey(d) \/ Exhausted(n + 1))

\* C29. In a call on an archive: a *.json member that is not JSON, and an
\* attempt on a member that fails for good (malformed blob, plaintext that
\* is not JSON, wrong key, third wrong password), end the call in that step
\* with CorruptedBackupError; only a member that passed the sniff is
\* decrypted; every step by which the call raises returns no entry, whatever
\* was extracted from earlier members, closes the archive and opens no
\* further member; and a call that returns went through every member, all
\* of them JSON.
ZipAllOrNothing ==
    [][InArchive =>
         LET members == JsonFiles(file.body) IN
         /\ (pc = "zip_member" /\ idx <= Len(members) /\ ~Parses(members[idx])) =>
                EndedCorrupted'
         /\ InDocument => Passes(members[idx])
         /\ (pc = "attempt" /\ AttemptFails(data, password, attempts)) =>
                EndedCorrupted'
         /\ (Ended' /\ outcome' # "returned") =>
                /\ result' = <<>>
                /\ handles' = {}
                /\ idx' = 0
                /\ pc' # "zip_member"
         /\ (Ended' /\ outcome' = "returned") =>
                /\ idx = Len(members) + 1
                /\ AllParse(members)
                /\ result' = entries
         /\ (Ended' /\ ~AllParse(members)) => EndedCorrupted' /\ result' = <<>>
      ]_vars

\* an archive of two members: the first holds a service that makes an
\* entry, the decryption of the second ended by exhaustion, and the call
\* returned nothing
ZipAllOrNothingWitness ==
    /\ ZipRun
    /\ outcome = "CorruptedBackupError"
    /\ reason = "invalid password"
    /\ attempts = 3
    /\ Len(JsonFiles(file.body)) = 2
    /\ ~Encrypted(JsonFiles(file.body)[1])
    /\ Len(EntriesOfPassing(<<JsonFiles(file.body)[1]>>)) = 1
    /\ Encrypted(JsonFiles(file.body)[2])
    /\ result = <<>>

\* an archive whose second member is not JSON: the entry of the first is
\* not returned
ZipGarbageMemberDropsEntries ==
    /\ ZipRun
    /\ outcome = "CorruptedBackupError"
    /\ Len(JsonFiles(file.body)) = 2
    /\ Len(EntriesOfPassing(<<JsonFiles(file.body)[1]>>)) = 1
    /\ ~Parses(JsonFiles(file.body)[2])
    /\ result = <<>>

\* ------------------------------------------------------------------------
\* The first prompt and the validation of the blob
\* ------------------------------------------------------------------------

\* what _split_encrypted_blob raises with
BlobDefects == {"blob structure", "blob base64", "blob data or iv missing"}

\* C30. For an encrypted container without a key and with no password
\* cached, the step after the test of line 208 is the prompt, before the
\* blob is split; an attempt on such a container is made only with an
\* interactive standard input, and when its blob has a structural defect
\* exactly one prompt has been made and the call ends with
\* CorruptedBackupError for that defect; without an interactive standard
\* input the prompt ends the call with the password-required error.
PromptPrecedesValidation ==
    [][/\ (pc = "decrypt" /\ NeedsDecryption(data) /\ ~HasEmbeddedKey(data)
                /\ cached = None) =>
              pc' = "prompt" /\ promptCalls' = 0
       /\ (pc = "attempt" /\ ~HasEmbeddedKey(data) /\ cached = None) =>
              /\ tty
              /\ promptCalls >= 1
              /\ StructuralDefect(data) =>
                     /\ promptCalls = 1
                     /\ getpassCalls = 1
                     /\ EndedCorrupted'
                     /\ reason' \in BlobDefects
       /\ (pc = "prompt" /\ ~tty) =>
              EndedCorrupted' /\ reason' = "interactive only"
      ]_vars

\* C30 of the code: the same, for a container whose key fields give None
\* (data.get("keyEncoded") or data.get("key"), line 213); a container whose
\* key field is the empty string is not one of them.
PromptPrecedesValidationOfCode ==
    [][/\ (pc = "decrypt" /\ NeedsDecryption(data) /\ KeyEncoded(data) = None
                /\ cached = None) =>
              pc' = "prompt" /\ promptCalls' = 0
       /\ (pc = "attempt" /\ KeyEncoded(data) = None /\ cached = None) =>
              /\ tty
              /\ promptCalls >= 1
              /\ StructuralDefect(data) =>
                     /\ promptCalls = 1
                     /\ getpassCalls = 1
                     /\ EndedCorrupted'
                     /\ reason' \in BlobDefects
       /\ (pc = "prompt" /\ ~tty) =>
              EndedCorrupted' /\ reason' = "interactive only"
       /\ (pc = "decrypt" /\ NeedsDecryption(data) /\ ~HasEmbeddedKey(data)
                /\ KeyEncoded(data) # None) =>
              pc' = "attempt"
      ]_vars

\* a document without key fields and with a blob of one segment was
\* processed with no password cached: one prompt, then the defect
PromptPrecedesValidationOfCodeWitness ==
    /\ EndedCorrupted
    /\ ~IsZip
    /\ file.body.fmt = "json"
    /\ KeyEncoded(file.body.data) = None
    /\ StructuralDefect(file.body.data)
    /\ cached = None
    /\ reason = "blob structure"
    /\ promptCalls = 1
    /\ getpassCalls = 1

\* a document whose key field is the empty string and whose blob has one
\* segment was processed without an interactive standard input and with
\* no password cached: no prompt, and the defect is what is reported
EmptyKeyFieldSkipsPrompt ==
    /\ EndedCorrupted
    /\ ~IsZip
    /\ ~tty
    /\ file.body.fmt = "json"
    /\ ~HasEmbeddedKey(file.body.data)
    /\ KeyEncoded(file.body.data) = JStr(<<>>)
    /\ cached = None
    /\ reason = "blob structure"
    /\ promptCalls = 0

====
